---- MODULE Spec2Model ----
(***************************************************************************)
(* Verification model of the Poisson / drift-diffusion engine of           *)
(* app/services/compute_poisson_v1.py.                                      *)
(*                                                                         *)
(* Numbers are fixed-point integers: a float x of the program is the        *)
(* integer x * FP.  Square roots are integer square roots of the scaled     *)
(* operand, RF phases are multiples of 90 degrees so that cos and sin are   *)
(* exact, and RF powers are perfect squares so that sqrt(power) is exact.   *)
(***************************************************************************)
EXTENDS Integers, Sequences, FiniteSets, TLC

VARIABLES pc, req, env, res

vars == <<pc, req, env, res>>

\* ------------------------------------------------------------------ bounds
NR == 2
NZ == 2
FP == 100
MaxAmp == 2

\* iterations of cg_solve that are followed (maxiter in the code)
CgMaxIter == 8

\* sweeps of _solve_linear_gs that are followed (NE_MAX_ITER in the code)
NeMaxIter == 6

\* terms of the series that stands for math.exp
ExpTerms == 12

\* ----------------------------------------------------------------- helpers
K == 0 .. (NZ - 1)
J == 0 .. (NR - 1)
Cells == K \X J

Abs(x) == IF x < 0 THEN -x ELSE x

Max2(a, b) == IF a >= b THEN a ELSE b

Min2(a, b) == IF a <= b THEN a ELSE b

_clamp(value, lo, hi) == Max2(lo, Min2(hi, value))

SetMax(S) == CHOOSE m \in S : \A x \in S : x <= m

SetMin(S) == CHOOSE m \in S : \A x \in S : m <= x

RECURSIVE SeqSum(_)
SeqSum(s) == IF s = <<>> THEN 0 ELSE Head(s) + SeqSum(Tail(s))

\* floor(sqrt(n)) for n >= 0
RECURSIVE IsqrtFrom(_, _)
IsqrtFrom(n, x) ==
  LET y == (x + (n \div x)) \div 2
  IN  IF y >= x THEN x ELSE IsqrtFrom(n, y)

Isqrt(n) == IF n <= 0 THEN 0 ELSE IsqrtFrom(n, n)

\* math.hypot on fixed-point operands
Hypot(x, y) == Isqrt(x * x + y * y)

\* ------------------------------------------------------------- data model

RegionType(r, k, j) ==
  LET \* region_legend of the requests: id -> region type
      region_legend ==
        [i \in 0 .. 4 |-> CASE i = 0 -> "plasma"
                            [] i = 1 -> "solid_wall"
                            [] i = 2 -> "powered_electrode"
                            [] i = 3 -> "ground_electrode"
                            [] OTHER -> "dielectric"]
  IN                         region_legend[r.region_id[k][j]]

NoTagMask == [present |-> FALSE, masks |-> [t \in {} |-> 0]]

\* tag_mask.get(tag) is not None
HasMask(tag_mask, tag) == tag_mask.present /\ tag \in DOMAIN tag_mask.masks

RECURSIVE SetSum(_, _)
\* sum of f[x] over the finite set S
SetSum(S, f) ==
  IF S = {} THEN 0
  ELSE LET x == CHOOSE y \in S : TRUE IN f[x] + SetSum(S \ {x}, f)

SeqToSet(s) == {s[i] : i \in 1 .. Len(s)}

\* ------------------------------------------------------ RF drive sources

_collect_rf_drive_sources(r) ==
  LET RfDriveSource(tag, power, phase) ==
        [surface_tag |-> tag, power_w |-> power, phase_deg |-> phase]
  IN    IF r.rf_sources # <<>>
        THEN [i \in 1 .. Len(r.rf_sources) |->
                RfDriveSource(r.rf_sources[i].surface_tag,
                              Max2(r.rf_sources[i].rf_power_W, 0),
                              r.rf_sources[i].phase_deg)]
        ELSE << RfDriveSource("None", Max2(r.rf_power_W, 0), 0) >>

\* every source with power gets the full amplitude, whatever its share
SourceAmp_PowerBlind(power, total) == IF power > 0 THEN FP ELSE 0

\* amp = sqrt(power) / sqrt(total_power)
SourceAmp(power, total) ==
  LET \* math.sqrt on a fixed-point operand: sqrt(x/FP)*FP = sqrt(x*FP)
      SqrtFP(x) == Isqrt(x * FP)
  IN    IF power > 0 THEN (SqrtFP(power * FP) * FP) \div SqrtFP(total * FP) ELSE 0

_build_boundary_drive_components(r) ==
  LET BoundaryDriveComponent(tag, re, im) ==
        [surface_tag |-> tag, real |-> re, imag |-> im]
  IN    LET Sin(deg) == CASE deg % 360 = 90 -> 1
                          [] deg % 360 = 270 -> -1
                          [] OTHER -> 0
        IN    LET \* math.cos / math.sin of math.radians(phase_deg), phase a multiple of 90
                  Cos(deg) == CASE deg % 360 = 0 -> 1
                                [] deg % 360 = 180 -> -1
                                [] OTHER -> 0
              IN    LET TotalPower(sources) == SeqSum([i \in 1 .. Len(sources) |-> sources[i].power_w])
                    IN    LET sources == _collect_rf_drive_sources(r)
                              total   == TotalPower(sources)
                              uniform == FP \div Max2(Len(sources), 1)
                          IN  IF sources = <<>> THEN <<>>
                              ELSE IF total > 0
                              THEN [i \in 1 .. Len(sources) |->
                                      BoundaryDriveComponent(
                                        sources[i].surface_tag,
                                        SourceAmp(sources[i].power_w, total) * Cos(sources[i].phase_deg),
                                        SourceAmp(sources[i].power_w, total) * Sin(sources[i].phase_deg))]
                              ELSE [i \in 1 .. Len(sources) |->
                                      BoundaryDriveComponent(
                                        sources[i].surface_tag,
                                        uniform * Cos(sources[i].phase_deg),
                                        uniform * Sin(sources[i].phase_deg))]

\* --------------------------------------------------------------- DC bias

\* dict tag -> summed offset over the DC-bias regions naming that tag
_build_dc_bias_region_offset_map(r) ==
  LET _bias_voltage_to_offset(dc_bias_v) ==
        LET clamped == _clamp(dc_bias_v, -5000, 5000)
            normalized == IF clamped < 0
                          THEN -(((-clamped) * FP * 112) \div 50000)
                          ELSE (clamped * FP) \div 500
        IN  IF clamped = 0 THEN 0
            ELSE _clamp(normalized, -((32 * FP) \div 10), (32 * FP) \div 10)
  IN    LET regions == r.dc_bias_regions
            tags    == {regions[i].target_tag : i \in 1 .. Len(regions)}
        IN  [t \in tags |->
               SeqSum([i \in 1 .. Len(regions) |->
                         IF regions[i].target_tag = t
                         THEN _bias_voltage_to_offset(regions[i].dc_bias_V)
                         ELSE 0])]

\* ------------------------------------------------- Dirichlet mask / values
_cell_matches_source_tag(tag_mask, k, j, source_tag) ==
  IF source_tag = "None" THEN TRUE
  ELSE IF ~tag_mask.present THEN FALSE
  ELSE IF source_tag \notin DOMAIN tag_mask.masks THEN FALSE
  ELSE tag_mask.masks[source_tag][k][j]

\* no fallback for a powered cell that no source matches
MatchedComponents_NoFallback(tag_mask, rf_components, k, j) ==
  SelectSeq(rf_components,
            LAMBDA c : _cell_matches_source_tag(tag_mask, k, j, c.surface_tag))

\* the components superposed at a powered cell (matched, else the fallback)
MatchedComponents(tag_mask, rf_components, k, j) ==
  LET matched  == SelectSeq(rf_components,
                    LAMBDA c : _cell_matches_source_tag(tag_mask, k, j, c.surface_tag))
      untagged_components == SelectSeq(rf_components, LAMBDA c : c.surface_tag = "None")
      any_tagged_source ==
        \E i \in 1 .. Len(rf_components) : rf_components[i].surface_tag # "None"
  IN  IF matched # <<>> THEN matched
      ELSE IF any_tagged_source /\ untagged_components # <<>> THEN untagged_components
      ELSE rf_components

powered_cells(r) == {c \in Cells : RegionType(r, c[1], c[2]) = "powered_electrode"}

\* the offsets added without the rescale to powered_voltage
PoweredValue_NoRescale(drive, max_drive, powered_voltage, dc_offset, local_offset) ==
  drive + dc_offset + local_offset

\* values[k][j] of a powered cell after the rescale and the offsets
PoweredValue(drive, max_drive, powered_voltage, dc_offset, local_offset) ==
  IF max_drive > 0
  THEN (drive * powered_voltage) \div max_drive + dc_offset + local_offset
  ELSE dc_offset + local_offset

\* solid_wall left out of the Dirichlet region types
IsDirichletType_NoWall(region_type) ==
  region_type = "powered_electrode" \/ region_type = "ground_electrode"

\* the region types whose cells get mask[k][j] = True
IsDirichletType(region_type) ==
  region_type = "powered_electrode" \/ region_type \in {"ground_electrode", "solid_wall"}

build_dirichlet_mask_values(r, powered_voltage, dc_offset) ==
  LET \* values[k][j] of a powered cell before the rescale
      PoweredDrive(tag_mask, rf_components, k, j, powered_voltage0) ==
        LET matched == MatchedComponents(tag_mask, rf_components, k, j)
            re == SeqSum([i \in 1 .. Len(matched) |-> matched[i].real])
            im == SeqSum([i \in 1 .. Len(matched) |-> matched[i].imag])
        IN  IF matched = <<>> THEN powered_voltage0 ELSE Hypot(re, im)
  IN    LET local_region_offset(tag_mask, dc_bias_region_offsets, k, j) ==
              LET hit == {t \in DOMAIN dc_bias_region_offsets :
                            HasMask(tag_mask, t) /\ tag_mask.masks[t][k][j]}
              IN  IF DOMAIN dc_bias_region_offsets = {} THEN 0
                  ELSE IF ~tag_mask.present THEN 0
                  ELSE SetSum(hit, dc_bias_region_offsets)
        IN    LET rf_components == _build_boundary_drive_components(r)
                  dc_bias_region_offsets == _build_dc_bias_region_offset_map(r)
                  drive == [c \in powered_cells(r) |->
                              PoweredDrive(r.tag_mask, rf_components, c[1], c[2], powered_voltage)]
                  max_drive == IF powered_cells(r) = {} THEN 0
                               ELSE SetMax({drive[c] : c \in powered_cells(r)})
              IN
              [mask |->
                 [k \in K |-> [j \in J |-> IsDirichletType(RegionType(r, k, j))]],
               \* values[k][j] as first written, before the rescale (0 off the powered cells)
               drive |->
                 [k \in K |-> [j \in J |->
                    IF RegionType(r, k, j) = "powered_electrode" THEN drive[<<k, j>>] ELSE 0]],
               \* powered_cell_local_offsets, and the local offset of the other cells
               local_offsets |->
                 [k \in K |-> [j \in J |->
                    local_region_offset(r.tag_mask, dc_bias_region_offsets, k, j)]],
               values |->
                 [k \in K |-> [j \in J |->
                    CASE RegionType(r, k, j) = "powered_electrode" ->
                           PoweredValue(drive[<<k, j>>], max_drive, powered_voltage, dc_offset,
                                        local_region_offset(r.tag_mask, dc_bias_region_offsets, k, j))
                      [] RegionType(r, k, j) \in {"ground_electrode", "solid_wall"} ->
                           local_region_offset(r.tag_mask, dc_bias_region_offsets, k, j)
                      [] OTHER -> 0]]]

\* ------------------------------------------------------- request inputs
ColMask(j0) == [k \in K |-> [j \in J |-> j = j0]]

TagMaskOf(masks) == [present |-> TRUE, masks |-> masks]

\* geometry.grid.tag_mask: absent, empty, tag a only, disjoint a and b, overlapping a and b
TagMasks ==
  { NoTagMask,
    TagMaskOf([t \in {} |-> 0]),
    TagMaskOf([t \in {"a"} |-> ColMask(0)]),
    TagMaskOf([t \in {"a", "b"} |-> IF t = "a" THEN ColMask(0) ELSE ColMask(NR - 1)]),
    TagMaskOf([t \in {"a", "b"} |-> IF t = "a" THEN ColMask(0) ELSE ([k \in K |-> [j \in J |-> TRUE]])]) }

\* region_id grids: every row of one region id, or every column of one region id
RowGrid(ids) == [k \in K |-> [j \in J |-> ids[k]]]

ColGrid(ids) == [k \in K |-> [j \in J |-> ids[j]]]

RegionGrids(idset) ==
  {RowGrid(ids) : ids \in [K -> idset]} \cup {ColGrid(ids) : ids \in [J -> idset]}

SourceTags == <<"None", "a", "b", "m">>

PhaseChoices == <<0, 90, 180>>

\* the n-th PlasmaSource: tag, power (a perfect square), phase
PlasmaSource(n) ==
  LET amp == (n \div Len(SourceTags)) % (MaxAmp + 1)
  IN  [surface_tag |-> SourceTags[(n % Len(SourceTags)) + 1],
       rf_power_W  |-> amp * amp,
       phase_deg   |-> PhaseChoices[(n \div (Len(SourceTags) * (MaxAmp + 1))) + 1]]

DCBiasRegion(tag, volts) == [target_tag |-> tag, dc_bias_V |-> volts]

\* ---------------------------------------- build_dirichlet_mask_values runs
PoweredRow == RowGrid([k \in K |-> IF k = 0 THEN 2 ELSE 0])

DisjointTags ==
  TagMaskOf([t \in {"a", "b"} |-> IF t = "a" THEN ColMask(0) ELSE ColMask(NR - 1)])

HighVoltage == (3 * FP) \div 2

BuildDirichlet ==
  /\ pc = "ready"
  /\ res' = build_dirichlet_mask_values(req, req.powered_voltage, req.dc_offset)
  /\ pc' = "done"
  /\ UNCHANGED <<req, env>>

InitDrive ==
  LET \* process.rf_sources: absent (<<>>), or one to three sources
      RfSourceLists ==
        LET SourceIdx == 0 .. ((Len(SourceTags) * (MaxAmp + 1) * Len(PhaseChoices)) - 1)
        IN    { <<>> }
              \cup { << PlasmaSource(a) >> : a \in SourceIdx }
              \cup { << PlasmaSource(x[1]), PlasmaSource(x[2]) >> :
                       x \in {y \in SourceIdx \X SourceIdx : y[1] <= y[2]} }
              \cup { << PlasmaSource(x[1]), PlasmaSource(x[2]), PlasmaSource(x[3]) >> :
                       x \in {y \in SourceIdx \X SourceIdx \X SourceIdx : y[1] <= y[2] /\ y[2] <= y[3]} }
  IN    /\ pc = "ready"
        /\ req \in ([region_id        : {PoweredRow},
                     tag_mask         : TagMasks \ {TagMaskOf([t \in {} |-> 0])},
                     rf_sources       : RfSourceLists,
                     rf_power_W       : {4},
                     dc_bias_regions  : {<<>>},
                     powered_voltage  : {HighVoltage},
                     dc_offset        : {0}]
                    \cup
                    [region_id        : {(ColGrid([j \in J |-> IF j = NR - 1 THEN 3 ELSE 2]))},
                     tag_mask         : {DisjointTags},
                     rf_sources       : RfSourceLists,
                     rf_power_W       : {0},
                     dc_bias_regions  : {<<>>},
                     powered_voltage  : {0},
                     dc_offset        : {0}]
                    \cup
                    [region_id        : {PoweredRow},
                     tag_mask         : {NoTagMask, DisjointTags},
                     rf_sources       : RfSourceLists,
                     rf_power_W       : {1},
                     dc_bias_regions  : {<< DCBiasRegion("a", 500), DCBiasRegion("m", -500) >>},
                     powered_voltage  : {HighVoltage},
                     dc_offset        : {FP \div 2}])
        /\ env = [sp |-> TRUE]
        /\ res = [mask |-> <<>>, drive |-> <<>>, local_offsets |-> <<>>, values |-> <<>>]

NextDrive == BuildDirichlet

SpecDrive == InitDrive /\ [][NextDrive]_vars

InitMask ==
  /\ pc = "ready"
  /\ req \in ([region_id        : RegionGrids(0 .. 4),
               tag_mask         : TagMasks,
               rf_sources       : { <<>>,
                                    << PlasmaSource(1) >>,
                                    << [surface_tag |-> "a", rf_power_W |-> 4, phase_deg |-> 0],
                                       [surface_tag |-> "b", rf_power_W |-> 1, phase_deg |-> 180] >>,
                                    << [surface_tag |-> "m", rf_power_W |-> 1, phase_deg |-> 0] >> },
               rf_power_W       : {4},
               dc_bias_regions  : { <<>>,
                                    << DCBiasRegion("a", 500) >>,
                                    << DCBiasRegion("m", -500), DCBiasRegion("b", 500) >> },
               powered_voltage  : {HighVoltage},
               dc_offset        : {0, FP \div 2}])
  /\ env = [sp |-> TRUE]
  /\ res = [mask |-> <<>>, drive |-> <<>>, local_offsets |-> <<>>, values |-> <<>>]

SpecMask == InitMask /\ [][NextDrive]_vars

\* ======================================================== Poisson solve
\* 2D -> 1D indexing: idx(k, j) = k * nr + j
idx(nr, k, j) == k * nr + j

EmptyRow == [c \in {} |-> 0]

\* rows[row][col] = rows[row].get(col, 0.0) + value, on one row dict
_add_entry(row, col, value) ==
  [c \in (DOMAIN row) \cup {col} |->
     (IF c \in DOMAIN row THEN row[c] ELSE 0) + (IF c = col THEN value ELSE 0)]

RECURSIVE AddNeighbors(_, _, _, _)
AddNeighbors(p, acc, i, nbs) ==
  LET \* one add_neighbor(i, k, j, coef) call on the row and right-hand side of cell i
      add_neighbor(p0, acc0, i0, nbr) ==
        LET moved ==
              IF p0.dirichlet_mask[nbr.k][nbr.j]
              THEN [row |-> acc0.row,
                    b   |-> acc0.b + (nbr.coef * p0.dirichlet_values[nbr.k][nbr.j]) \div FP]
              ELSE [row |-> _add_entry(acc0.row, idx(p0.nr, nbr.k, nbr.j), -nbr.coef),
                    b   |-> acc0.b]
        IN  [row |-> _add_entry(moved.row, i0, nbr.coef), b |-> moved.b]
  IN    IF nbs = <<>> THEN acc
        ELSE AddNeighbors(p, add_neighbor(p, acc, i, Head(nbs)), i, Tail(nbs))

assemble_poisson_matrix(p) ==
  LET \* the row dict and right-hand side the cell loop builds for cell (k, j)
      CellEquation(p1, k, j) ==
        LET Neighbor(k0, j0, coef) == [k |-> k0, j |-> j0, coef |-> coef]
        IN    LET \* factor * eps_face / (d * d), factor 2.0 on the faces of a boundary cell
                  FaceCoef(factor, eps_face, d) == (factor * eps_face * FP * FP) \div (d * d)
              IN    LET _harmonic(a, b) == IF a <= 0 \/ b <= 0 THEN 0 ELSE (2 * a * b) \div (a + b)
                    IN    LET \* the add_neighbor calls of the k-branch of a free cell, in the order of the code
                              AxialNeighbors(p0, k0, j0) ==
                                IF k0 = 0
                                THEN << Neighbor(k0 + 1, j0, FaceCoef(2, _harmonic(p0.eps[k0][j0], p0.eps[k0 + 1][j0]), p0.dz)) >>
                                ELSE IF k0 = p0.nz - 1
                                THEN << Neighbor(k0 - 1, j0, FaceCoef(2, _harmonic(p0.eps[k0][j0], p0.eps[k0 - 1][j0]), p0.dz)) >>
                                ELSE << Neighbor(k0 + 1, j0, FaceCoef(1, _harmonic(p0.eps[k0][j0], p0.eps[k0 + 1][j0]), p0.dz)),
                                        Neighbor(k0 - 1, j0, FaceCoef(1, _harmonic(p0.eps[k0][j0], p0.eps[k0 - 1][j0]), p0.dz)) >>
                          IN    LET \* the add_neighbor calls of the j-branch of a free cell, in the order of the code
                                    RadialNeighbors(p0, k0, j0) ==
                                      IF j0 = 0
                                      THEN << Neighbor(k0, j0 + 1, FaceCoef(2, _harmonic(p0.eps[k0][j0], p0.eps[k0][j0 + 1]), p0.dr)) >>
                                      ELSE IF j0 = p0.nr - 1
                                      THEN << Neighbor(k0, j0 - 1, FaceCoef(2, _harmonic(p0.eps[k0][j0], p0.eps[k0][j0 - 1]), p0.dr)) >>
                                      ELSE << Neighbor(k0, j0 + 1, FaceCoef(1, _harmonic(p0.eps[k0][j0], p0.eps[k0][j0 + 1]), p0.dr)),
                                              Neighbor(k0, j0 - 1, FaceCoef(1, _harmonic(p0.eps[k0][j0], p0.eps[k0][j0 - 1]), p0.dr)) >>
                                IN    IF p1.dirichlet_mask[k][j]
                                      THEN [row |-> _add_entry(EmptyRow, idx(p1.nr, k, j), FP),
                                            b   |-> p1.dirichlet_values[k][j]]
                                      ELSE AddNeighbors(p1, [row |-> EmptyRow, b |-> 0], idx(p1.nr, k, j),
                                                        RadialNeighbors(p1, k, j) \o AxialNeighbors(p1, k, j))
  IN    LET Unknowns(p0) == 0 .. (p0.nz * p0.nr - 1)
        IN    LET eq == [i \in Unknowns(p) |-> CellEquation(p, i \div p.nr, i % p.nr)]
              IN  [rows |-> [i \in Unknowns(p) |-> eq[i].row],
                   b    |-> [i \in Unknowns(p) |-> eq[i].b]]

\* ------------------------------------------------ sparse direct solve
RECURSIVE Gcd(_, _)
Gcd(a, b) == IF b = 0 THEN a ELSE Gcd(b, a % b)

RECURSIVE SetGcd(_)
SetGcd(S) ==
  IF S = {} THEN 0
  ELSE LET x == CHOOSE y \in S : TRUE IN Gcd(Abs(x), SetGcd(S \ {x}))

\* exact (fraction-free) Gauss-Jordan elimination of columns c .. n-1 with row
\* pivoting: ends with det * I in the matrix and det * x in column n
RECURSIVE Eliminate(_, _, _, _)
Eliminate(M, n, c, prev) ==
  IF c = n THEN [singular |-> FALSE, M |-> M]
  ELSE LET cand == {r \in c .. (n - 1) : M[r][c] # 0}
       IN  IF cand = {} THEN [singular |-> TRUE, M |-> M]
           ELSE LET r0 == SetMin(cand)
                    S  == [r \in 0 .. (n - 1) |->
                             IF r = c THEN M[r0] ELSE IF r = r0 THEN M[c] ELSE M[r]]
                    pivot == S[c][c]
                    N  == [r \in 0 .. (n - 1) |->
                             IF r = c THEN S[c]
                             ELSE [cc \in 0 .. n |->
                                     IF cc = c THEN 0
                                     ELSE (pivot * S[r][cc] - S[r][c] * S[c][cc]) \div prev]]
                IN  Eliminate(N, n, c + 1, pivot)

\* spla.spsolve(A, b): the exact solution, or exactly_singular
spsolve(rows, b) ==
  LET \* the augmented matrix [A | b] of the system, A and b each divided by the
      \* common divisor of its entries (the solution is rescaled in spsolve)
      Augmented(rows0, b0, n, g, gb) ==
        [i \in 0 .. (n - 1) |->
           [j \in 0 .. n |->
              IF j = n THEN b0[i] \div gb
              ELSE IF j \in DOMAIN rows0[i] THEN rows0[i][j] \div g
              ELSE 0]]
  IN    LET n  == Cardinality(DOMAIN b)
            g  == Max2(SetGcd({rows[ij[1]][ij[2]] : ij \in {c \in (DOMAIN b) \X (DOMAIN b) : c[2] \in DOMAIN rows[c[1]]}}), 1)
            gb == Max2(SetGcd({b[i] : i \in DOMAIN b}), 1)
            e  == Eliminate(Augmented(rows, b, n, g, gb), n, 0, 1)
            det == e.M[n - 1][n - 1]
        IN  IF e.singular THEN [exactly_singular |-> TRUE, x |-> [i \in DOMAIN b |-> 0]]
            ELSE [exactly_singular |-> FALSE,
                  x |-> [i \in DOMAIN b |-> (e.M[i][n] * gb * FP) \div (det * g)]]

\* ---------------------------------------------- conjugate gradient (cg_solve)
\* _matvec_rows(rows, vector)
RECURSIVE RowDot(_, _, _)
\* acc += value * vec[j] over the entries of one row, columns 0 .. n
RowDot(row, vec, n) ==
  IF n < 0 THEN 0
  ELSE (IF n \in DOMAIN row THEN row[n] * vec[n] ELSE 0) + RowDot(row, vec, n - 1)

RECURSIVE DotTo(_, _, _)
DotTo(a, b, n) == IF n < 0 THEN 0 ELSE a[n] * b[n] + DotTo(a, b, n - 1)

\* sum(a_i * b_i), kept at the scale FP * FP
Dot(a, b) == DotTo(a, b, Cardinality(DOMAIN a) - 1)

\* x, r, p, rsold before the first iteration
CgStart(b) ==
  [x |-> [i \in DOMAIN b |-> 0], r |-> b, p |-> b, rsold |-> Dot(b, b),
   it |-> 0, stopped |-> FALSE]

\* the loop body after Ap: denom, alpha, x, r, rsnew
CgUpdate(st, Ap, denom) ==
  LET \* the loop body after rsnew: the tolerance test, beta, p, rsold
      CgDirection(st0, x, r, rsnew) ==
        LET beta == (rsnew * FP) \div st0.rsold
        IN  IF rsnew = 0
            THEN [st0 EXCEPT !.x = x, !.r = r, !.it = st0.it + 1, !.stopped = TRUE]
            ELSE [x |-> x, r |-> r,
                  p |-> [i \in DOMAIN r |-> r[i] + (beta * st0.p[i]) \div FP],
                  rsold |-> rsnew, it |-> st0.it + 1, stopped |-> FALSE]
  IN    LET alpha == (st.rsold * FP) \div denom
            x     == [i \in DOMAIN st.x |-> st.x[i] + (alpha * st.p[i]) \div FP]
            r     == [i \in DOMAIN st.r |-> st.r[i] - (alpha * Ap[i]) \div FP]
        IN  IF denom = 0 THEN [st EXCEPT !.stopped = TRUE]
            ELSE CHOOSE out \in {CgDirection(st, xr[1], xr[2], Dot(xr[2], xr[2])) : xr \in {<<x, r>>}} : TRUE

RECURSIVE CgLoop(_, _)
CgLoop(rows, st) ==
  LET \* one pass of the loop body (each intermediate vector is computed once)
      CgIteration(rows1, st1) ==
        LET _matvec_rows(rows0, vec) ==
              [i \in DOMAIN rows |-> RowDot(rows0[i], vec, Cardinality(DOMAIN vec) - 1) \div FP]
        IN    CHOOSE out \in {CgUpdate(st1, Ap, Dot(st1.p, Ap)) : Ap \in {_matvec_rows(rows1, st1.p)}} : TRUE
  IN    IF st.stopped \/ st.it = CgMaxIter THEN st
        ELSE CHOOSE out \in {CgLoop(rows, nxt) : nxt \in {CgIteration(rows, st)}} : TRUE

\* ------------------------------------------------------------ solve_phi

\* solve_phi(A, b, nz, nr) with sp importable (sp_available) or not
solve_phi(p, rows, b, sp_available, lu) ==
  LET \* phi_2d = [phi_list[k * nr : (k + 1) * nr] for k in range(nz)]
      Reshape(p0, x) == [k \in 0 .. (p0.nz - 1) |-> [j \in 0 .. (p0.nr - 1) |-> x[idx(p0.nr, k, j)]]]
  IN    LET \* cg_solve(matvec, b): the state the loop is left with; .x is what it returns
            cg_solve(rows0, b0) == CgLoop(rows0, CgStart(b0))
        IN    IF sp_available
              THEN CHOOSE out \in {[phi |-> Reshape(p, x), phi_nan |-> lu = "nan", cg |-> CgStart(b)] :
                                      x \in {spsolve(rows, b).x}} : TRUE
              ELSE CHOOSE out \in {[phi |-> Reshape(p, st.x), phi_nan |-> FALSE, cg |-> st] :
                                      st \in {cg_solve(rows, b)}} : TRUE

\* ------------------------------------------------------ electric field

\* ----------------------------------------------------- build_epsilon_map
\* the last override of request.material.regions[1 .. n] that sets epsilon_r
\* and whose tag mask covers (k, j) wins; none leaves the region default
RECURSIVE OverrideEps(_, _, _, _, _)
OverrideEps(r, n, k, j, base) ==
  IF n = 0 THEN base
  ELSE LET o == r.material_regions[n]
       \* epsilon_r None is modelled as 0 (a given epsilon_r is > 0)
       IN  IF r.tag_mask.present /\ o.epsilon_r # 0 /\ HasMask(r.tag_mask, o.target_tag)
              /\ r.tag_mask.masks[o.target_tag][k][j]
           THEN o.epsilon_r
           ELSE OverrideEps(r, n - 1, k, j, base)

build_epsilon_map(r) ==
  [k \in K |-> [j \in J |->
     OverrideEps(r, Len(r.material_regions), k, j,
                 IF RegionType(r, k, j) = "dielectric" THEN r.epsilon_r ELSE FP)]]

\* --------------------------------------------------- Poisson problem inputs

\* ------------------------------------------------------- Poisson actions

NoSolve ==
  [problem |-> <<>>, rows |-> <<>>, b |-> <<>>, phi |-> <<>>, phi_nan |-> FALSE,
   cg |-> ([x |-> <<>>, r |-> <<>>, p |-> <<>>, rsold |-> 0, it |-> 0, stopped |-> FALSE]), E_mag |-> <<>>, E_nan |-> FALSE]

Assembled(p) ==
  LET a == assemble_poisson_matrix(p)
  IN  [NoSolve EXCEPT !.problem = p, !.rows = a.rows, !.b = a.b]

\* A, b = assemble_poisson_matrix(eps, dr, dz, nz, nr, dirichlet_mask, dirichlet_values)
Assemble ==
  /\ pc = "problem"
  /\ res' = Assembled(req)
  /\ pc' = "assembled"
  /\ UNCHANGED <<req, env>>

\* run_simulation_poisson_v1 up to the assembled system
RunAssemble ==
  LET \* eps, dr, dz and the Dirichlet mask/values run_simulation_poisson_v1 hands on
      RunProblem(r) ==
        LET d == build_dirichlet_mask_values(r, r.powered_voltage, r.dc_offset)
        IN  [nz |-> NZ, nr |-> NR, dr |-> FP, dz |-> FP,
             eps |-> build_epsilon_map(r),
             dirichlet_mask |-> d.mask,
             dirichlet_values |-> d.values]
  IN    /\ pc = "request"
        /\ res' = Assembled(RunProblem(req))
        /\ pc' = "assembled"
        /\ UNCHANGED <<req, env>>

\* phi = solve_phi(A, b, nz, nr)
SolvePhi ==
  LET \* What the factorisation inside spla.spsolve can report for (rows, b):
      \*   "solved"     every pivot is non-zero;
      \*   "nan"        a pivot is exactly zero: spsolve warns and fills x with NaN;
      \*   "tiny_pivot" the matrix is singular but rounding left a non-zero pivot, so
      \*                the homogeneous system b = 0 is answered with zeros.
      \* Which of the last two happens for a singular, non-zero matrix depends on the
      \* column ordering and the rounding of the factorisation.
      LuOutcomes(rows, b) ==
        LET IsZeroMatrix(rows0) == \A i \in DOMAIN rows0 : \A j \in DOMAIN rows0[i] : rows0[i][j] = 0
        IN    IF ~spsolve(rows, b).exactly_singular THEN {"solved"}
              ELSE IF IsZeroMatrix(rows) \/ (\E i \in DOMAIN b : b[i] # 0) THEN {"nan"}
              ELSE {"nan", "tiny_pivot"}
  IN    /\ pc = "assembled"
        /\ \E lu \in (IF env.sp THEN LuOutcomes(res.rows, res.b) ELSE {"unused"}) :
             \E s \in {solve_phi(res.problem, res.rows, res.b, env.sp, lu)} :
               res' = [res EXCEPT !.phi = s.phi, !.phi_nan = s.phi_nan, !.cg = s.cg]
        /\ pc' = "solved"
        /\ UNCHANGED <<req, env>>

\* e_mag = compute_Emag(phi, dr, dz): a NaN potential gives a NaN field
ComputeEmag ==
  LET compute_Emag(p, phi) ==
        LET Ez(p0, phi0, k, j) ==
              IF k = 0 THEN (-(phi0[k + 1][j] - phi0[k][j]) * FP) \div p0.dz
              ELSE IF k = p0.nz - 1 THEN (-(phi0[k][j] - phi0[k - 1][j]) * FP) \div p0.dz
              ELSE (-(phi0[k + 1][j] - phi0[k - 1][j]) * FP) \div (2 * p0.dz)
        IN    LET Er(p0, phi0, k, j) ==
                    IF j = 0 THEN 0
                    ELSE IF j = p0.nr - 1 THEN (-(phi0[k][j] - phi0[k][j - 1]) * FP) \div p0.dr
                    ELSE (-(phi0[k][j + 1] - phi0[k][j - 1]) * FP) \div (2 * p0.dr)
              IN    [k \in 0 .. (p.nz - 1) |-> [j \in 0 .. (p.nr - 1) |->
                       Hypot(Er(p, phi, k, j), Ez(p, phi, k, j))]]
  IN    /\ pc = "solved"
        /\ res' = [res EXCEPT !.E_mag = IF res.phi_nan THEN <<>> ELSE compute_Emag(res.problem, res.phi),
                              !.E_nan = res.phi_nan]
        /\ pc' = "fields"
        /\ UNCHANGED <<req, env>>

InitPoisson ==
  LET PoissonProblem(nz, nr, mask, even, odd) ==
        LET \* dirichlet_values: one level on the even cells, one on the odd cells, 0 off the mask
            CheckerValues(mask0, nz0, nr0, even0, odd0) ==
              [k \in 0 .. (nz0 - 1) |-> [j \in 0 .. (nr0 - 1) |->
                 IF ~mask0[k][j] THEN 0 ELSE IF (k + j) % 2 = 0 THEN even0 ELSE odd0]]
        IN    LET UniformGrid(nz0, nr0, v) == [k \in 0 .. (nz0 - 1) |-> [j \in 0 .. (nr0 - 1) |-> v]]
              IN    [nz |-> nz, nr |-> nr, dr |-> FP, dz |-> FP,
                     eps |-> UniformGrid(nz, nr, FP),
                     dirichlet_mask |-> mask,
                     dirichlet_values |-> CheckerValues(mask, nz, nr, even, odd)]
  IN    LET BoundaryLevels == {0, FP, (3 * FP) \div 2}
        IN    /\ pc = "problem"
              /\ req \in (UNION { { PoissonProblem(NZ, nr, mask, lv[1], lv[2]) :
                                      mask \in [0 .. (NZ - 1) -> [0 .. (nr - 1) -> BOOLEAN]],
                                      lv \in BoundaryLevels \X BoundaryLevels } : nr \in ({NR, NR + 1}) })
              /\ env \in [sp : BOOLEAN]
              /\ res = NoSolve

NextPoisson == Assemble \/ SolvePhi \/ ComputeEmag

SpecPoisson == InitPoisson /\ [][NextPoisson]_vars

InitRun ==
  /\ pc = "request"
  /\ req \in ([region_id        : RegionGrids(0 .. 4),
               tag_mask         : {NoTagMask},
               rf_sources       : {<<>>},
               rf_power_W       : {4},
               dc_bias_regions  : {<<>>},
               powered_voltage  : {HighVoltage},
               dc_offset        : {0},
               epsilon_r        : {FP},
               material_regions : {<<>>}]
              \cup
              [region_id        : {(RowGrid([k \in K |-> 4]))},
               tag_mask         : {NoTagMask},
               rf_sources       : {<<>>},
               rf_power_W       : {4},
               dc_bias_regions  : {<<>>},
               powered_voltage  : {HighVoltage},
               dc_offset        : {0},
               epsilon_r        : {0},   \* 1e-200: the harmonic mean underflows to 0
               material_regions : {<<>>}])
  /\ env \in [sp : BOOLEAN]
  /\ res = NoSolve

NextRun == RunAssemble \/ SolvePhi \/ ComputeEmag

SpecRun == InitRun /\ [][NextRun]_vars

\* ================================================ electron density solve
\* N_FLOOR and NE_TOL at the resolution 1 / FP: the floor 1e-8 is the smallest
\* positive number, and a sweep has converged (max_delta < NE_TOL) when no
\* value moved by a whole unit
N_FLOOR == 1

NE_TOL == 1

RECURSIVE ExpSeries(_, _, _, _)
ExpSeries(x, n, term, sum) ==
  IF n > ExpTerms THEN sum
  ELSE ExpSeries(x, n + 1, (term * x) \div (n * FP), sum + (term * x) \div (n * FP))

\* math.exp(x)
Exp(x) == ExpSeries(x, 1, FP, FP)

\* build_ne_proxy_from_phi(phi) for a finite phi
build_ne_proxy_from_phi(phi) ==
  LET phi_ref == SetMin({phi[c[1]][c[2]] : c \in Cells})
      ne_raw  == [k \in K |-> [j \in J |-> Exp(phi[k][j] - phi_ref)]]
      min_ne  == SetMin({ne_raw[c[1]][c[2]] : c \in Cells})
      max_ne  == SetMax({ne_raw[c[1]][c[2]] : c \in Cells})
  IN  IF max_ne <= min_ne THEN [k \in K |-> [j \in J |-> 0]]
      ELSE [k \in K |-> [j \in J |-> ((ne_raw[k][j] - min_ne) * FP) \div (max_ne - min_ne)]]

IsPlasma(q, k, j) == RegionType(q, k, j) = "plasma"

NoFace == [diag |-> 0, col |-> -1, off |-> 0]

RECURSIVE FaceEntries(_, _, _)
FaceEntries(faces, n, row) ==
  IF n = 0 THEN row
  ELSE FaceEntries(faces, n - 1,
                   IF faces[n].col < 0 THEN row ELSE _add_entry(row, faces[n].col, faces[n].off))

NeUnknowns == 0 .. (NZ * NR - 1)

\* ------------------------------------------------------ _solve_linear_gs
RECURSIVE RowSigma(_, _, _, _)
\* sigma += value * x[j] over the entries j # i of the row, columns 0 .. n
RowSigma(row, x, i, n) ==
  IF n < 0 THEN 0
  ELSE (IF n # i /\ n \in DOMAIN row THEN row[n] * x[n] ELSE 0) + RowSigma(row, x, i, n - 1)

RECURSIVE GsSweep(_, _, _, _, _)
\* rows i .. of one sweep; stops at a missing or zero diagonal
GsSweep(rows, b, x, i, max_delta) ==
  LET \* the new value of x[i]: (b[i] - sigma) / diag, floored at N_FLOOR
      GsValue(rows0, b0, x0, i0) ==
        Max2(((b0[i0] - RowSigma(rows0[i0], x0, i0, Cardinality(DOMAIN x0) - 1) \div FP) * FP) \div rows0[i0][i0],
             N_FLOOR)
  IN    IF i \notin DOMAIN rows THEN [x |-> x, max_delta |-> max_delta, zero_diag |-> FALSE]
        ELSE IF i \notin DOMAIN rows[i] \/ rows[i][i] = 0
        THEN [x |-> x, max_delta |-> max_delta, zero_diag |-> TRUE]
        ELSE CHOOSE out \in
               {GsSweep(rows, b, [x EXCEPT ![i] = v], i + 1, Max2(max_delta, Abs(v - x[i]))) :
                  v \in {GsValue(rows, b, x, i)}} : TRUE

RECURSIVE GsIterate(_, _, _, _)
GsIterate(rows, b, x, iteration) ==
  CHOOSE out \in
    { IF sw.zero_diag
      THEN [x |-> sw.x, converged |-> FALSE, iterations |-> iteration,
            warnings |-> <<"zero diagonal in GS solver">>]
      ELSE IF sw.max_delta < NE_TOL
      THEN [x |-> sw.x, converged |-> TRUE, iterations |-> iteration, warnings |-> <<>>]
      ELSE IF iteration = NeMaxIter
      THEN [x |-> sw.x, converged |-> FALSE, iterations |-> NeMaxIter, warnings |-> <<>>]
      ELSE GsIterate(rows, b, sw.x, iteration + 1) :
      sw \in {GsSweep(rows, b, x, 0, 0)} } : TRUE

_solve_linear_gs(rows, b, x0) == GsIterate(rows, b, x0, 1)

\* ------------------------------------------------ _to_density_observable
\* one cell: q.gain is rf_nonlin_gain * gas_reactivity_gain * pump_damping
DensityObservable(q, value) ==
  IF value <= 0 THEN 0
  ELSE LET value_eff == (value * q.gain) \div FP
       IN  _clamp((value_eff * FP) \div (value_eff + q.n_sat), 0, FP)

Flat(grid) == [i \in NeUnknowns |-> grid[i \div NR][i % NR]]

\* ------------------------------------------ solve_ne_drift_diffusion_sg

n_ref_of(q) == IF q.phi_nan THEN [k \in K |-> [j \in J |-> 0]] ELSE build_ne_proxy_from_phi(q.phi)

SpsolveWarning == "spsolve failed: non-finite solution; using GS"

GsOnFinite(sys, x0, warnings) ==
  CHOOSE out \in
    {[x |-> g.x, x_nan |-> [i \in NeUnknowns |-> FALSE], converged |-> g.converged,
      iterations |-> g.iterations, warnings |-> warnings \o g.warnings, gs_ran |-> TRUE] :
       g \in {_solve_linear_gs(sys.rows, sys.b, x0)}} : TRUE

\* Gauss-Seidel is run whatever the direct solve returned
DirectOrGs_ThenGs(sys, x0) == GsOnFinite(sys, x0, <<>>)

\* the try block around spla.spsolve: a finite solution is floored at N_FLOOR
DirectOrGs(sys, x0) ==
  CHOOSE out \in
    { IF d.exactly_singular THEN GsOnFinite(sys, x0, <<SpsolveWarning>>)
      ELSE [x |-> [i \in NeUnknowns |-> Max2(d.x[i], N_FLOOR)],
            x_nan |-> [i \in NeUnknowns |-> FALSE],
            converged |-> TRUE, iterations |-> 1, warnings |-> <<>>, gs_ran |-> FALSE] :
      d \in {spsolve(sys.rows, sys.b)} } : TRUE

\* lines 1993-2023: the linear solve, by spsolve when sp is importable
LinearSolve(q, n_ref, sp_available) ==
  LET \* east, west, north, south faces of the plasma cell (k, j)
      Faces(q2, k, j) ==
        LET Face(q1, k1, j1, k2, j2, forward) ==
              LET \* coef_r = d_e / (dr * dr), coef_z = d_e / (dz * dz), with dr = dz = q.d
                  FluxCoef(q0) == (q0.D_e * FP * FP) \div (q0.d * q0.d)
              IN    LET _bernoulli(x) ==
                          IF x = 0 THEN FP - x \div 2 + (x * x) \div (12 * FP)
                          ELSE IF x > 50 * FP THEN 0
                          ELSE IF x < -50 * FP THEN -x
                          ELSE (x * FP) \div (Exp(x) - FP)
                    IN    LET \* the Scharfetter-Gummel face towards the plasma cell (k2, j2): pe as the code
                              \* forms it for an east/north face (forward) or a west/south face
                              PlasmaFace(q0, k0, j0, k20, j20, forward0) ==
                                LET pe == IF forward0 THEN (q0.mu_e * (q0.phi[k20][j20] - q0.phi[k0][j0])) \div q0.D_e
                                          ELSE (q0.mu_e * (q0.phi[k0][j0] - q0.phi[k20][j20])) \div q0.D_e
                                    bp == _bernoulli(pe)
                                    bm == _bernoulli(-pe)
                                IN  [diag |-> (FluxCoef(q0) * (IF forward0 THEN bp ELSE bm)) \div FP,
                                     col  |-> idx(NR, k20, j20),
                                     off  |-> -((FluxCoef(q0) * (IF forward0 THEN bm ELSE bp)) \div FP)]
                          IN    LET \* sink / dr of a face towards a non-plasma neighbour (no pump outlet on it)
                                    FaceSink(q0, k0, j0) ==
                                      ((IF RegionType(q0, k0, j0) = "powered_electrode" THEN q0.k_s_powered ELSE q0.k_s_wall) * FP) \div q0.d
                                IN    IF IsPlasma(q1, k2, j2) THEN PlasmaFace(q1, k1, j1, k2, j2, forward)
                                      ELSE [NoFace EXCEPT !.diag = FaceSink(q1, k2, j2)]
        IN    LET \* sink / dr of a face on the edge of the domain
                  EdgeSink(q0) == (q0.k_s_wall * FP) \div q0.d
              IN    << IF j < NR - 1 THEN Face(q2, k, j, k, j + 1, TRUE) ELSE [NoFace EXCEPT !.diag = EdgeSink(q2)],
                       IF j > 0 THEN Face(q2, k, j, k, j - 1, FALSE) ELSE NoFace,
                       IF k < NZ - 1 THEN Face(q2, k, j, k + 1, j, TRUE) ELSE [NoFace EXCEPT !.diag = EdgeSink(q2)],
                       IF k > 0 THEN Face(q2, k, j, k - 1, j, FALSE) ELSE [NoFace EXCEPT !.diag = EdgeSink(q2)] >>
  IN    LET NeSystem(q1, n_ref1) ==
              LET \* one row of the drift-diffusion system and its right-hand side
                  NeEquation(q0, n_ref0, k, j) ==
                    IF ~IsPlasma(q0, k, j)
                    THEN [row |-> _add_entry(EmptyRow, idx(NR, k, j), FP), b |-> N_FLOOR]
                    ELSE LET faces == Faces(q0, k, j)
                             a_p   == q0.cell_loss + faces[1].diag + faces[2].diag + faces[3].diag + faces[4].diag
                         IN  [row |-> _add_entry(FaceEntries(faces, 4, EmptyRow), idx(NR, k, j), a_p),
                              b   |-> (q0.lambda_relax * n_ref0[k][j]) \div FP + q0.ion_source]
              IN    [rows |-> [i \in NeUnknowns |-> NeEquation(q1, n_ref1, i \div NR, i % NR).row],
                     b    |-> [i \in NeUnknowns |-> NeEquation(q1, n_ref1, i \div NR, i % NR).b]]
        IN    LET \* Gauss-Seidel on a system with NaN entries: NaN compares false, so max_delta
                  \* stays 0.0 and the first sweep reports convergence; plasma cells end NaN
                  GsOnNan(q0, warnings) ==
                    [x |-> [i \in NeUnknowns |-> N_FLOOR],
                     x_nan |-> [i \in NeUnknowns |-> IsPlasma(q0, i \div NR, i % NR)],
                     converged |-> TRUE, iterations |-> 1, warnings |-> warnings, gs_ran |-> TRUE]
              IN    LET \* a NaN potential (q.phi_nan) makes n_ref, and with it the right-hand side and
                        \* the start vector of every plasma cell, NaN
                        NanSystem(q0) == q0.phi_nan /\ \E c \in Cells : IsPlasma(q0, c[1], c[2])
                    IN    IF NanSystem(q)
                          THEN GsOnNan(q, IF sp_available THEN <<SpsolveWarning>> ELSE <<>>)
                          ELSE CHOOSE out \in
                                 { IF sp_available THEN DirectOrGs(sys, Flat(n_ref)) ELSE GsOnFinite(sys, Flat(n_ref), <<>>) :
                                   sys \in {NeSystem(q, n_ref)} } : TRUE

\* the proxy is swapped in and flagged whether or not the solve converged
ProxyFallback_Always(s, n_ref, n_ref_nan) ==
  [s EXCEPT !.warnings = Append(s.warnings, "drift-diffusion did not converge; using proxy ne"),
            !.x = Flat(n_ref), !.x_nan = [i \in NeUnknowns |-> n_ref_nan]]
  @@ [fallback_used |-> TRUE]

\* lines 2025-2029, with fallback_used = False on entry
ProxyFallback_Silent(s, n_ref, n_ref_nan) ==
  IF ~s.converged
  THEN [s EXCEPT !.x = Flat(n_ref), !.x_nan = [i \in NeUnknowns |-> n_ref_nan]]
       @@ [fallback_used |-> FALSE]
  ELSE s @@ [fallback_used |-> FALSE]

ProxyFallback(s, n_ref, n_ref_nan) ==
  IF ~s.converged
  THEN [s EXCEPT !.warnings = Append(s.warnings, "drift-diffusion did not converge; using proxy ne"),
                 !.x = Flat(n_ref), !.x_nan = [i \in NeUnknowns |-> n_ref_nan]]
       @@ [fallback_used |-> TRUE]
  ELSE s @@ [fallback_used |-> FALSE]

\* the early return of lines 1680-1700
\* the early return with the proxy passed through the density transfer
ProxyOnly_Transfer(q) ==
  [ne |-> [k \in K |-> [j \in J |-> DensityObservable(q, n_ref_of(q)[k][j])]],
   ne_nan |-> [k \in K |-> [j \in J |-> q.phi_nan]],
   converged |-> FALSE, iterations |-> 0, fallback_used |-> TRUE,
   warnings |-> <<"D_e must be positive; using proxy ne">>,
   gs_ran |-> FALSE, proxy_returned |-> TRUE]

ProxyOnly(q) ==
  [ne |-> n_ref_of(q),
   ne_nan |-> [k \in K |-> [j \in J |-> q.phi_nan]],
   converged |-> FALSE, iterations |-> 0, fallback_used |-> TRUE,
   warnings |-> <<"D_e must be positive; using proxy ne">>,
   gs_ran |-> FALSE, proxy_returned |-> TRUE]

solve_ne_drift_diffusion_sg(q, sp_available) ==
  LET NoNan == [k \in K |-> [j \in J |-> FALSE]]
  IN    IF q.D_e <= 0 THEN ProxyOnly(q)
        ELSE CHOOSE out \in
               {[ne |-> [k \in K |-> [j \in J |->
                           IF s.x_nan[idx(NR, k, j)] THEN 0
                           ELSE DensityObservable(q, s.x[idx(NR, k, j)])]],
                 ne_nan |-> NoNan,
                 converged |-> s.converged, iterations |-> s.iterations,
                 fallback_used |-> s.fallback_used, warnings |-> s.warnings,
                 gs_ran |-> s.gs_ran, proxy_returned |-> ~s.converged] :
                  s \in {ProxyFallback(LinearSolve(q, n_ref_of(q), sp_available),
                                       n_ref_of(q), q.phi_nan)}} : TRUE

\* ------------------------------------------------------ density requests
NeGrids == RegionGrids({0, 1, 2})

\* solved_ne, ne_meta = solve_ne_drift_diffusion_sg(phi, request, coefficients=transport)
SolveNe ==
  /\ pc = "ne_request"
  /\ \E s \in {solve_ne_drift_diffusion_sg(req, env.sp)} : res' = s
  /\ pc' = "ne_solved"
  /\ UNCHANGED <<req, env>>

\* ne_norm_raw: solved_ne on the plasma cells, 0.0 elsewhere
MaskNe ==
  /\ pc = "ne_solved"
  /\ res' = [res EXCEPT
               !.ne = [k \in K |-> [j \in J |-> IF IsPlasma(req, k, j) THEN res.ne[k][j] ELSE 0]],
               !.ne_nan = [k \in K |-> [j \in J |-> IsPlasma(req, k, j) /\ res.ne_nan[k][j]]]]
  /\ pc' = "ne_masked"
  /\ UNCHANGED <<req, env>>

InitNe ==
  /\ pc = "ne_request"
  /\ req \in ([region_id    : NeGrids,
               phi          : ({ [k \in K |-> [j \in J |-> 0]],
                                 [k \in K |-> [j \in J |-> IF k = 0 THEN FP ELSE 0]],
                                 [k \in K |-> [j \in J |-> IF j = NR - 1 THEN FP ELSE 0]] }),
               phi_nan      : {FALSE},
               d            : {FP},
               mu_e         : {FP \div 10},
               D_e          : {0, FP \div 10},
               k_s_wall     : {FP \div 20},
               k_s_powered  : {FP \div 20},
               lambda_relax : {FP \div 100},
               cell_loss    : {FP \div 20},
               ion_source   : {0, FP \div 10, FP},
               gain         : {FP},
               n_sat        : {(3 * FP) \div 100, (55 * FP) \div 100}]
              \cup
              [region_id    : NeGrids,
               phi          : {([k \in K |-> [j \in J |-> 0]])},
               phi_nan      : {FALSE, TRUE},
               d            : {FP \div 2},
               mu_e         : {FP \div 10},
               D_e          : {0, FP \div 10},
               k_s_wall     : {FP \div 20},
               k_s_powered  : {FP \div 20},
               lambda_relax : {FP \div 100},
               cell_loss    : {FP \div 20},
               ion_source   : {0, FP \div 10},
               gain         : {FP},
               n_sat        : {(3 * FP) \div 100}])
  /\ env \in [sp : BOOLEAN]
  /\ res = ([ne |-> <<>>, ne_nan |-> <<>>, converged |-> FALSE, iterations |-> 0,
             fallback_used |-> FALSE, warnings |-> <<>>, gs_ran |-> FALSE, proxy_returned |-> FALSE])

NextNe == SolveNe \/ MaskNe

SpecNe == InitNe /\ [][NextNe]_vars

\* =========================================================== properties
Done == pc = "done"

Sources == _collect_rf_drive_sources(req)

SrcIdx == 1 .. Len(Sources)

\* the cell lies under the tag of the source
UnderTag(c, s) ==
  /\ s.surface_tag # "None"
  /\ HasMask(req.tag_mask, s.surface_tag)
  /\ req.tag_mask.masks[s.surface_tag][c[1]][c[2]]

\* the source is superposed at the cell
Matches(c, s) == _cell_matches_source_tag(req.tag_mask, c[1], c[2], s.surface_tag)

OnlyMatch(c, i) == \A n \in SrcIdx : Matches(c, Sources[n]) <=> n = i

ValueAt(c) == res.values[c[1]][c[2]]

LocalOffsetAt(c) == res.local_offsets[c[1]][c[2]]

DriveAt(c) == res.drive[c[1]][c[2]]

AllInPhase == \A n \in SrcIdx : Sources[n].phase_deg = 0

\* C6: a cell is Dirichlet iff its region type is powered_electrode,
\* ground_electrode or solid_wall; plasma and dielectric cells never are,
\* whatever tags, RF sources or DC-bias regions the request carries.
C6_DirichletIffElectrodeOrWall ==
  Done =>
    \A c \in Cells :
      /\ res.mask[c[1]][c[2]] <=>
           RegionType(req, c[1], c[2]) \in
             {"powered_electrode", "ground_electrode", "solid_wall"}
      /\ RegionType(req, c[1], c[2]) \in {"plasma", "dielectric"} => ~res.mask[c[1]][c[2]]

\* a dielectric cell under a tag named by an RF source and a DC-bias region stays
\* free while a solid_wall cell of the same grid is Dirichlet
C6_Witness ==
  /\ Done
  /\ \E c \in Cells, d \in Cells :
       /\ RegionType(req, c[1], c[2]) = "dielectric"
       /\ \E n \in SrcIdx : UnderTag(c, Sources[n])
       /\ LocalOffsetAt(c) # 0
       /\ ~res.mask[c[1]][c[2]]
       /\ RegionType(req, d[1], d[2]) = "solid_wall"
       /\ res.mask[d[1]][d[2]]

SingleSource == Len(Sources) = 1

NoDcBias == req.dc_offset = 0 /\ req.dc_bias_regions = <<>>

\* C7: with exactly one RF source, zero DC offset and no DC-bias regions every
\* powered_electrode cell gets the same value, the requested powered_voltage.
C7_SingleSourceUniform ==
  (Done /\ SingleSource /\ NoDcBias) =>
    \A c \in powered_cells(req) : ValueAt(c) = req.powered_voltage

\* one tagged source whose tag covers some powered cells and not others
C7_Witness ==
  /\ Done /\ SingleSource /\ NoDcBias
  /\ req.rf_sources # <<>>
  /\ req.powered_voltage > 0
  /\ \E c \in powered_cells(req), d \in powered_cells(req) :
       /\ UnderTag(c, Sources[1])
       /\ ~Matches(d, Sources[1])
       /\ ValueAt(c) = req.powered_voltage
       /\ ValueAt(d) = req.powered_voltage

MultiSource == Len(req.rf_sources) \in {2, 3}

\* C8 as claimed (on requests whose sources are all in phase, for two distinct
\* cells and two distinct tags): a powered cell under the tag of a higher-power
\* source has a strictly greater boundary value than a powered cell under the
\* tag of a lower-power source.
C8_Claimed ==
  (Done /\ MultiSource /\ NoDcBias /\ AllInPhase /\ req.powered_voltage > 0) =>
    \A a \in powered_cells(req), b \in powered_cells(req) :
      \A h \in SrcIdx, l \in SrcIdx :
        (a # b /\ Sources[h].surface_tag # Sources[l].surface_tag
           /\ UnderTag(a, Sources[h]) /\ UnderTag(b, Sources[l])
           /\ Sources[h].power_w > Sources[l].power_w)
        => ValueAt(a) > ValueAt(b)

\* C8 amended: the ordering holds when each of the two cells is matched by no
\* source other than its own (no other tag covers it, no source is untagged)
\* and powered_voltage is positive; any phases.
C8_TagOrdering ==
  (Done /\ MultiSource /\ NoDcBias /\ req.powered_voltage > 0) =>
    \A a \in powered_cells(req), b \in powered_cells(req) :
      \A h \in SrcIdx, l \in SrcIdx :
        (UnderTag(a, Sources[h]) /\ UnderTag(b, Sources[l])
           /\ OnlyMatch(a, h) /\ OnlyMatch(b, l)
           /\ Sources[h].power_w > Sources[l].power_w)
        => ValueAt(a) > ValueAt(b)

\* three sources out of phase, the third matching neither cell
C8_Witness ==
  /\ Done /\ NoDcBias /\ req.powered_voltage > 0
  /\ Len(req.rf_sources) = 3
  /\ \E a \in powered_cells(req), b \in powered_cells(req) :
       \E h \in SrcIdx, l \in SrcIdx :
         /\ UnderTag(a, Sources[h]) /\ UnderTag(b, Sources[l])
         /\ OnlyMatch(a, h) /\ OnlyMatch(b, l)
         /\ Sources[h].power_w > Sources[l].power_w
         /\ Sources[l].power_w > 0
         /\ Sources[h].phase_deg # Sources[l].phase_deg
         /\ ValueAt(a) > ValueAt(b)
         /\ ValueAt(b) > 0

IsMaxDriveCell(c) ==
  /\ c \in powered_cells(req)
  /\ \A d \in powered_cells(req) : DriveAt(d) <= DriveAt(c)

Solved == pc \in {"solved", "fields"}

DirichletAt(k, j) == res.problem.dirichlet_mask[k][j]

ProblemCells == (0 .. (res.problem.nz - 1)) \X (0 .. (res.problem.nr - 1))

\* rounding allowance of the fixed-point conjugate gradient
DirichletTol == FP \div 20

\* C5: after assemble_poisson_matrix and solve_phi the potential equals
\* dirichlet_values[k][j] at every Dirichlet cell; each Dirichlet row is an
\* identity row whose right-hand side is the assigned value, and no other row
\* has an entry in a Dirichlet column.
C5_Claimed ==
  Solved =>
    \A c \in ProblemCells :
      DirichletAt(c[1], c[2]) =>
        LET i == idx(res.problem.nr, c[1], c[2])
            v == res.problem.dirichlet_values[c[1]][c[2]]
        IN  /\ ~res.phi_nan
            /\ Abs(res.phi[c[1]][c[2]] - v) <= DirichletTol
            /\ res.rows[i] = [col \in {i} |-> FP]
            /\ res.b[i] = v
            /\ \A o \in DOMAIN res.rows : o # i => i \notin DOMAIN res.rows[o]

\* ------------------------------------------------------------------- C3
\* C3: for every accepted request the potential returned by solve_phi and
\* every value of the field grids derived from it is finite.
C3_Claimed ==
  /\ Solved => ~res.phi_nan
  /\ pc = "fields" => ~res.E_nan

\* ------------------------------------------------------------------- C1
NeSolved == pc \in {"ne_solved", "ne_masked"}

\* C1: whenever the density returned by solve_ne_drift_diffusion_sg is the
\* potential-derived proxy (D_e <= 0, or the linear solve did not converge),
\* the metadata has fallback_used = true and a non-empty warnings list.
C1_ProxyIsReported ==
  NeSolved =>
    ((req.D_e <= 0 \/ ~res.converged \/ res.proxy_returned) =>
       (res.fallback_used /\ Len(res.warnings) > 0))

\* the proxy is returned after a Gauss-Seidel solve that did not converge
C1_Witness ==
  /\ pc = "ne_solved"
  /\ req.D_e > 0
  /\ res.gs_ran
  /\ ~res.converged
  /\ res.proxy_returned
  /\ res.fallback_used
  /\ res.warnings = <<"drift-diffusion did not converge; using proxy ne">>

\* ------------------------------------------------------------------- C2
GsExplanations ==
  {SpsolveWarning, "zero diagonal in GS solver", "drift-diffusion did not converge; using proxy ne"}

\* C2: whenever Gauss-Seidel is run (the direct solver is unavailable, threw
\* or returned a non-finite vector) the warnings list of the metadata holds
\* an explanatory warning, also when Gauss-Seidel converges.
C2_Claimed ==
  NeSolved =>
    (res.gs_ran => \E n \in 1 .. Len(res.warnings) : res.warnings[n] \in GsExplanations)

\* ------------------------------------------------------------------- C4
\* C4: every cell of the returned electron density lies in [0, 1] on each of
\* the three solver outcomes (proxy only, solve mapped through the transfer
\* curve, proxy fallback after non-convergence).
C4_Claimed ==
  NeSolved =>
    \A c \in Cells :
      /\ ~res.ne_nan[c[1]][c[2]]
      /\ res.ne[c[1]][c[2]] >= 0
      /\ res.ne[c[1]][c[2]] <= FP

\* ============================================== tag references of a run
\* a warning string and the tags it names
Warning(msg, tags) == [msg |-> msg, tags |-> tags]

\* <<start, end>> of the radial window of the inlet
_inlet_radial_window(nr, emit_side, active_width_percent) ==
  LET active_count == Max2(1, Min2(nr, (2 * _clamp(active_width_percent, 5, 100) * nr + 100) \div 200))
      start == CASE emit_side = "left"  -> 0
                 [] emit_side = "right" -> nr - active_count
                 [] OTHER               -> Max2(0, (nr - active_count) \div 2)
  IN  IF nr <= 1 THEN <<0, 1>> ELSE <<start, Min2(nr, start + active_count)>>

\* source_map with 1.0 on the cells of S
MarkCells(S) == [k \in K |-> [j \in J |-> IF <<k, j>> \in S THEN FP ELSE 0]]

InWindow(S, w) == {c \in S : w[1] <= c[2] /\ c[2] < w[2]}

\* the cells of the top boundary inside the inlet window
TopBoundary(w) == InWindow({c \in Cells : c[1] = NZ - 1}, w)

_build_outlet_strength_map(r, warnings) ==
  LET \* strength_by_tag: the summed strength of the outlets naming a tag
      StrengthByTag(outlets) ==
        LET tags == {outlets[i].surface_tag : i \in {n \in 1 .. Len(outlets) : outlets[n].strength > 0}}
        IN  [t \in tags |->
               SeqSum([i \in 1 .. Len(outlets) |->
                         IF outlets[i].surface_tag = t THEN Max2(outlets[i].strength, 0) ELSE 0])]
  IN    LET strength_by_tag == StrengthByTag(r.outlets)
            tags         == DOMAIN strength_by_tag
            missing_tags == {t \in tags : ~HasMask(r.tag_mask, t)}
            hit(k, j)    == {t \in tags \ missing_tags : r.tag_mask.masks[t][k][j]}
            touched      == \E c \in Cells : hit(c[1], c[2]) # {}
            w1 == IF missing_tags # {}
                  THEN Append(warnings,
                         Warning("pump outlet tags missing in geometry.tag_mask", missing_tags))
                  ELSE warnings
            w2 == IF ~touched
                  THEN Append(w1, Warning("pump outlet masks did not overlap the geometry grid", {}))
                  ELSE w1
        IN  IF tags = {} THEN [outlet_strength_map |-> MarkCells({}), warnings |-> warnings]
            ELSE IF ~r.tag_mask.present
            THEN [outlet_strength_map |-> MarkCells({}),
                  warnings |-> Append(warnings,
                                 Warning("flow outlets defined but geometry.tag_mask is missing", {}))]
            ELSE [outlet_strength_map |->
                    [k \in K |-> [j \in J |-> SetSum(hit(k, j), strength_by_tag)]],
                  warnings |-> w2]

\* eps = build_epsilon_map(request)
TagEps ==
  /\ pc = "tag_request"
  /\ res' = [res EXCEPT !.eps = build_epsilon_map(req)]
  /\ pc' = "tag_eps"
  /\ UNCHANGED <<req, env>>

\* dirichlet_mask, dirichlet_values = build_dirichlet_mask_values(...)
TagDirichlet ==
  /\ pc = "tag_eps"
  /\ res' = [res EXCEPT !.values =
               build_dirichlet_mask_values(req, req.powered_voltage, req.dc_offset).values]
  /\ pc' = "tag_dirichlet"
  /\ UNCHANGED <<req, env>>

\* solve_ne_drift_diffusion_sg: the inlet and outlet maps, and the warnings of
\* the returned metadata (flow boundary warnings, then those of the solve)
TagNeSolver ==
  LET _build_inlet_source_map(r, warnings) ==
        LET inlet  == r.inlet[1]
            w      == _inlet_radial_window(NR, inlet.emit_side, inlet.active_width_percent)
            found  == HasMask(r.tag_mask, inlet.surface_tag)
            masked == IF found THEN {c \in Cells : r.tag_mask.masks[inlet.surface_tag][c[1]][c[2]]} ELSE {}
            missed == masked # {} /\ InWindow(masked, w) = {}
            marked == IF missed THEN masked ELSE InWindow(masked, w)
            w1 == IF r.tag_mask.present
                  THEN IF ~found
                       THEN Append(warnings,
                              Warning("inlet tag missing in geometry.tag_mask", {inlet.surface_tag}))
                       ELSE IF missed
                       THEN Append(warnings,
                              Warning("inlet active window did not overlap inlet surface; fell back to full inlet surface", {}))
                       ELSE warnings
                  ELSE Append(warnings,
                              Warning("flow inlet defined but geometry.tag_mask is missing", {}))
        IN  IF r.inlet = <<>> THEN [source_map |-> MarkCells({}), warnings |-> warnings]
            ELSE IF inlet.total_flow_sccm <= 0 THEN [source_map |-> MarkCells({}), warnings |-> warnings]
            ELSE IF marked = {}
            THEN [source_map |-> MarkCells(TopBoundary(w)),
                  warnings   |-> Append(w1, Warning("inlet source map used top-boundary fallback", {}))]
            ELSE [source_map |-> MarkCells(marked), warnings |-> w1]
  IN    /\ pc = "tag_dirichlet"
        /\ req.need_ne_solver
        /\ \E sw \in ({ <<>>,
                        << Warning(SpsolveWarning, {}) >>,
                        << Warning("drift-diffusion did not converge; using proxy ne", {}) >> }) :
             LET inlet  == _build_inlet_source_map(req, <<>>)
                 outlet == _build_outlet_strength_map(req, inlet.warnings)
             IN  res' = [res EXCEPT !.inlet_source_map = inlet.source_map,
                                    !.outlet_strength_map = outlet.outlet_strength_map,
                                    !.ne_solver = << outlet.warnings \o sw >>]
        /\ pc' = "tag_ne"
        /\ UNCHANGED <<req, env>>

\* need_ne_solver is False: ne_meta stays None
TagSkipNe ==
  /\ pc = "tag_dirichlet"
  /\ ~req.need_ne_solver
  /\ pc' = "tag_ne"
  /\ UNCHANGED <<req, env, res>>

\* the sheath metrics and the SimulationResult
TagResult ==
  LET \* the warnings of estimate_electrode_surface_z_by_r that depend on tag_mask
      SheathTagWarnings(r) ==
        LET \* the tags the sheath estimate takes for the powered electrode surface
            _select_powered_surface_tags(tags) ==
              tags \cap {"powered_electrode_surface", "powered_electrode"}
        IN    IF r.tag_mask.present /\ DOMAIN r.tag_mask.masks # {}
                 /\ _select_powered_surface_tags(DOMAIN r.tag_mask.masks) = {}
              THEN << Warning("no powered electrode surface tag found in geometry.grid.tag_mask; falling back to region_legend", {}) >>
              ELSE <<>>
  IN    /\ pc = "tag_ne"
        /\ res' = [res EXCEPT !.sheath_warnings =
                     IF req.enable_sheath THEN SheathTagWarnings(req) ELSE <<>>]
        /\ pc' = "tag_result"
        /\ UNCHANGED <<req, env>>

InitTags ==
  LET Inlet(tag, side) ==
        [surface_tag |-> tag, total_flow_sccm |-> 10, emit_side |-> side, active_width_percent |-> 28]
  IN    /\ pc = "tag_request"
        /\ req \in ([region_id        : {PoweredRow},
                     tag_mask         : {NoTagMask, TagMaskOf([t \in {"a"} |-> ColMask(0)]), DisjointTags},
                     rf_sources       : { <<>>,
                                          << [surface_tag |-> "a", rf_power_W |-> 4, phase_deg |-> 0] >>,
                                          << [surface_tag |-> "m", rf_power_W |-> 4, phase_deg |-> 0] >> },
                     rf_power_W       : {4},
                     dc_bias_regions  : { <<>>, << DCBiasRegion("a", 500) >>, << DCBiasRegion("m", 500) >> },
                     powered_voltage  : {HighVoltage},
                     dc_offset        : {0},
                     epsilon_r        : {FP},
                     material_regions : { <<>>, << [target_tag |-> "a", epsilon_r |-> 7 * FP] >>, << [target_tag |-> "m", epsilon_r |-> 7 * FP] >> },
                     inlet            : { <<>>, << Inlet("a", "left") >>, << Inlet("m", "right") >> },
                     outlets          : { <<>>, << [surface_tag |-> "a", strength |-> FP] >>, << [surface_tag |-> "m", strength |-> FP], [surface_tag |-> "a", strength |-> FP] >> },
                     need_ne_solver   : BOOLEAN,
                     enable_sheath    : {TRUE}])
        /\ env = [sp |-> TRUE]
        /\ res = [eps |-> <<>>, values |-> <<>>, inlet_source_map |-> <<>>,
                  outlet_strength_map |-> <<>>, ne_solver |-> <<>>, sheath_warnings |-> <<>>]

NextTags == TagEps \/ TagDirichlet \/ TagNeSolver \/ TagSkipNe \/ TagResult

SpecTags == InitTags /\ [][NextTags]_vars

\* ------------------------------------------------------------------ C10
TagDone == pc = "tag_result"

\* the tag is absent from geometry.grid.tag_mask
Absent(t) == req.tag_mask.present /\ t \notin DOMAIN req.tag_mask.masks

\* every warning of the warnings lists of the result
ResultWarnings ==
  UNION {SeqToSet(res.ne_solver[n]) : n \in 1 .. Len(res.ne_solver)}
    \cup SeqToSet(res.sheath_warnings)

Recorded(t) == \E w \in ResultWarnings : t \in w.tags

InletTags == {req.inlet[n].surface_tag : n \in 1 .. Len(req.inlet)}

OutletTags == {req.outlets[n].surface_tag : n \in 1 .. Len(req.outlets)}

RfTags == {req.rf_sources[n].surface_tag : n \in 1 .. Len(req.rf_sources)} \ {"None"}

DcTags == {req.dc_bias_regions[n].target_tag : n \in 1 .. Len(req.dc_bias_regions)}

MaterialTags == {req.material_regions[n].target_tag : n \in 1 .. Len(req.material_regions)}

\* the request with the references to absent tags taken out (an RF source
\* keeps its power and phase and loses its tag)
WithoutAbsent ==
  [req EXCEPT
     !.rf_sources = [n \in 1 .. Len(req.rf_sources) |->
                       IF Absent(req.rf_sources[n].surface_tag)
                       THEN [req.rf_sources[n] EXCEPT !.surface_tag = "None"]
                       ELSE req.rf_sources[n]],
     !.dc_bias_regions  = SelectSeq(req.dc_bias_regions, LAMBDA d : ~Absent(d.target_tag)),
     !.material_regions = SelectSeq(req.material_regions, LAMBDA m : ~Absent(m.target_tag)),
     !.outlets          = SelectSeq(req.outlets, LAMBDA o : ~Absent(o.surface_tag))]

\* the fallbacks: permittivity and Dirichlet values as without the reference,
\* outlet strength from the tags that exist, inlet on the top boundary
FallbackApplied ==
  /\ res.eps = build_epsilon_map(WithoutAbsent)
  /\ res.values =
       build_dirichlet_mask_values(WithoutAbsent, req.powered_voltage, req.dc_offset).values
  /\ req.need_ne_solver =>
       /\ res.outlet_strength_map =
            _build_outlet_strength_map(WithoutAbsent, <<>>).outlet_strength_map
       /\ \A t \in InletTags :
            Absent(t) =>
              res.inlet_source_map =
                MarkCells(TopBoundary(_inlet_radial_window(NR, req.inlet[1].emit_side,
                                                            req.inlet[1].active_width_percent)))

\* C10: for each kind of tag reference (inlet, outlets, RF source, DC-bias
\* region, material override) naming a tag that is absent from
\* geometry.grid.tag_mask, the finished run has applied the fallback and a
\* warnings list of the result records the missing tag.
C10_Claimed ==
  TagDone =>
    \A t \in InletTags \cup OutletTags \cup RfTags \cup DcTags \cup MaterialTags :
      Absent(t) => (FallbackApplied /\ Recorded(t))

\* ============================================== geometry.grid is required
\* wall-loss map: the default, overridden under the tag masks of the regions
\* that set wall_loss_e (the last one wins); None is modelled as -1
build_wall_loss_map(r) ==
  LET hit(k, j) == {n \in 1 .. Len(r.material_regions) :
                      /\ r.tag_mask.present
                      /\ r.material_regions[n].wall_loss_e # -1
                      /\ HasMask(r.tag_mask, r.material_regions[n].target_tag)
                      /\ r.tag_mask.masks[r.material_regions[n].target_tag][k][j]}
  IN  [k \in K |-> [j \in J |->
         IF hit(k, j) = {} THEN _clamp(r.wall_loss_e, 0, FP)
         ELSE _clamp(r.material_regions[SetMax(hit(k, j))].wall_loss_e, 0, FP)]]

\* run_simulation_poisson_v1: grid is None raises before anything is derived
EnterRun ==
  /\ pc = "call"
  /\ req.call = "run_simulation_poisson_v1"
  /\ pc' = IF req.grid THEN "request" ELSE "raised"
  /\ res' = IF req.grid THEN NoSolve ELSE res
  /\ UNCHANGED <<req, env>>

EnterEps ==
  /\ pc = "call"
  /\ req.call = "build_epsilon_map"
  /\ pc' = IF req.grid THEN "returned" ELSE "raised"
  /\ res' = IF req.grid THEN [res EXCEPT !.maps = <<build_epsilon_map(req)>>] ELSE res
  /\ UNCHANGED <<req, env>>

\* the map is built without the grid check
EnterWallLoss_NoCheck ==
  /\ pc = "call"
  /\ req.call = "build_wall_loss_map"
  /\ pc' = "returned"
  /\ res' = [res EXCEPT !.maps = <<build_wall_loss_map(req)>>]
  /\ UNCHANGED <<req, env>>

EnterWallLoss ==
  /\ pc = "call"
  /\ req.call = "build_wall_loss_map"
  /\ pc' = IF req.grid THEN "returned" ELSE "raised"
  /\ res' = IF req.grid THEN [res EXCEPT !.maps = <<build_wall_loss_map(req)>>] ELSE res
  /\ UNCHANGED <<req, env>>

EnterDirichlet ==
  /\ pc = "call"
  /\ req.call = "build_dirichlet_mask_values"
  /\ pc' = IF req.grid THEN "ready" ELSE "raised"
  /\ UNCHANGED <<req, env, res>>

EnterNe ==
  /\ pc = "call"
  /\ req.call = "solve_ne_drift_diffusion_sg"
  /\ pc' = IF req.grid THEN "ne_request" ELSE "raised"
  /\ UNCHANGED <<req, env, res>>

InitGrid ==
  LET \* the request r of a call, with geometry.grid present or None
      Call(r, call, grid) ==
        [f \in DOMAIN r \cup {"call", "grid"} |->
           CASE f = "call" -> call [] f = "grid" -> grid [] OTHER -> r[f]]
  IN    /\ pc = "call"
        /\ req \in
             { Call(r, c, g) :
                 r \in [region_id        : RegionGrids({0, 2, 4}),
                        tag_mask         : {NoTagMask, DisjointTags},
                        rf_sources       : {<<>>},
                        rf_power_W       : {4},
                        dc_bias_regions  : {<<>>},
                        powered_voltage  : {HighVoltage},
                        dc_offset        : {0},
                        epsilon_r        : {4 * FP},
                        wall_loss_e      : {FP \div 5},
                        material_regions : { <<>>,
                                             << [target_tag |-> "a", epsilon_r |-> 7 * FP,
                                                 wall_loss_e |-> FP \div 2] >> }],
                 c \in {"build_epsilon_map", "build_wall_loss_map", "build_dirichlet_mask_values"},
                 g \in BOOLEAN }
             \cup
             { Call(r, "run_simulation_poisson_v1", g) :
                 r \in [region_id        : RegionGrids({0, 2, 3}),
                        tag_mask         : {NoTagMask},
                        rf_sources       : {<<>>},
                        rf_power_W       : {4},
                        dc_bias_regions  : {<<>>},
                        powered_voltage  : {HighVoltage},
                        dc_offset        : {0},
                        epsilon_r        : {FP},
                        wall_loss_e      : {FP \div 5},
                        material_regions : {<<>>}],
                 g \in BOOLEAN }
             \cup
             { Call(q, "solve_ne_drift_diffusion_sg", g) :
                 q \in [region_id    : NeGrids,
                        phi          : {[k \in K |-> [j \in J |-> IF k = 0 THEN FP ELSE 0]]},
                        phi_nan      : {FALSE},
                        d            : {FP},
                        mu_e         : {FP \div 10},
                        D_e          : {0, FP \div 10},
                        k_s_wall     : {FP \div 20},
                        k_s_powered  : {FP \div 20},
                        lambda_relax : {FP \div 100},
                        cell_loss    : {FP \div 20},
                        ion_source   : {FP \div 10},
                        gain         : {FP},
                        n_sat        : {(3 * FP) \div 100}],
                 g \in BOOLEAN }
        /\ env \in [sp : BOOLEAN]
        /\ res = [maps |-> <<>>]

NextGrid ==
  \/ EnterRun \/ EnterEps \/ EnterWallLoss \/ EnterDirichlet \/ EnterNe
  \/ RunAssemble \/ SolvePhi \/ ComputeEmag \/ BuildDirichlet \/ SolveNe

SpecGrid == InitGrid /\ [][NextGrid]_vars

\* ------------------------------------------------------------------ C11
\* C11: with geometry.grid absent, run_simulation_poisson_v1, build_epsilon_map,
\* build_wall_loss_map, build_dirichlet_mask_values and
\* solve_ne_drift_diffusion_sg raise ValueError before a map is built or a
\* solve is started: the call ends in the raise, with no result and no fallback.
C11_GridRequired ==
  (~req.grid /\ pc # "call") => (pc = "raised" /\ res = [maps |-> <<>>])

C11_Witness ==
  /\ pc = "raised"
  /\ ~req.grid
  /\ req.call = "solve_ne_drift_diffusion_sg"

\* ------------------------------------------------------------------ C17
\* C17: in the map build_epsilon_map returns, every cell whose region type is
\* not dielectric has relative permittivity exactly 1.0, whatever the material
\* tag overrides and tag masks.
C17_Claimed ==
  (pc = "returned" /\ req.call = "build_epsilon_map") =>
    \A c \in Cells :
      RegionType(req, c[1], c[2]) # "dielectric" => res.maps[1][c[1]][c[2]] = FP

\* C20: with a diffusion coefficient D_e <= 0 solve_ne_drift_diffusion_sg
\* assembles and solves nothing (iterations = 0, converged = false,
\* fallback_used = true, no linear solve ran), it returns
\* build_ne_proxy_from_phi(phi) (NaN at every cell when phi is NaN), and the
\* masked density is that proxy at every plasma cell and 0 at every other cell.
C20_NonPositiveDiffusion ==
  (NeSolved /\ req.D_e <= 0) =>
    /\ res.iterations = 0 /\ ~res.converged /\ res.fallback_used /\ ~res.gs_ran
    /\ \A c \in Cells :
         IF pc = "ne_solved" \/ IsPlasma(req, c[1], c[2])
         THEN /\ res.ne_nan[c[1]][c[2]] = req.phi_nan
              /\ ~req.phi_nan =>
                   res.ne[c[1]][c[2]] = build_ne_proxy_from_phi(req.phi)[c[1]][c[2]]
         ELSE ~res.ne_nan[c[1]][c[2]] /\ res.ne[c[1]][c[2]] = 0

\* D_e = 0, a plasma cell with a non-zero proxy and a non-plasma cell whose
\* proxy is non-zero and is masked to 0
C20_Witness ==
  /\ pc = "ne_masked" /\ req.D_e <= 0
  /\ \E c \in Cells : IsPlasma(req, c[1], c[2]) /\ res.ne[c[1]][c[2]] > 0
  /\ \E c \in Cells : ~IsPlasma(req, c[1], c[2])
                        /\ build_ne_proxy_from_phi(req.phi)[c[1]][c[2]] > 0

\* ================================================= baseline comparison
\* an Optional[List[float]] is <<>> (None) or <<list>>; a list is a sequence
\* indexed from 1

\* delta_list of compute_delta_insights and compute_delta_ion_proxy: the delta
\* and the warning it appends
delta_list(a, b, label) ==
  IF a = <<>> \/ b = <<>>
  THEN [value |-> <<>>, warnings |-> <<label \o " missing for delta">>]
  ELSE IF Len(a[1]) # Len(b[1])
  THEN [value |-> <<>>, warnings |-> <<label \o " length mismatch for delta">>]
  ELSE [value |-> <<[n \in 1 .. Len(a[1]) |-> b[1][n] - a[1][n]]>>, warnings |-> <<>>]

\* the warnings of the baseline side only
Provenance_BaselineOnly(baseline, perturbed) ==
  [i \in 1 .. Len(baseline.warnings) |-> "baseline: " \o baseline.warnings[i]]

\* [f"baseline: {msg}" ...] + [f"perturbed: {msg}" ...]
Provenance(baseline, perturbed) ==
  [i \in 1 .. Len(baseline.warnings) |-> "baseline: " \o baseline.warnings[i]]
    \o [i \in 1 .. Len(perturbed.warnings) |-> "perturbed: " \o perturbed.warnings[i]]

\* <<mean, min, max>>
_summary_stats(values) ==
  IF values = <<>> THEN <<0, 0, 0>>
  ELSE <<SeqSum(values) \div Len(values),
         SetMin({values[i] : i \in 1 .. Len(values)}),
         SetMax({values[i] : i \in 1 .. Len(values)})>>

\* None for a missing or empty list (the values of the model are all finite)
_summary_stats_optional(values) ==
  IF values = <<>> \/ values[1] = <<>> THEN <<>> ELSE <<_summary_stats(values[1])>>

\* perturbed[j] - baseline[j] for j in range(len(baseline)): Python raises
\* IndexError when the perturbed list is the shorter one
Shorter(baseline, perturbed) == Len(perturbed) < Len(baseline)

\* the subtraction the other way round
Minus_Swapped(baseline, perturbed) ==
  [j \in 1 .. Len(baseline) |-> baseline[j] - perturbed[j]]

Minus(baseline, perturbed) == [j \in 1 .. Len(baseline) |-> perturbed[j] - baseline[j]]

compute_delta_sheath_metrics(baseline, perturbed) ==
  LET truthy(l) == l # <<>> /\ l[1] # <<>>
      thickness_delta ==
        IF truthy(baseline.thickness_mm_by_r) /\ truthy(perturbed.thickness_mm_by_r)
        THEN <<Minus(baseline.thickness_mm_by_r[1], perturbed.thickness_mm_by_r[1])>>
        ELSE <<>>
  IN  [z_mm_by_r |-> Minus(baseline.z_mm_by_r, perturbed.z_mm_by_r),
       electrode_z_mm_by_r |-> <<>>,
       thickness_mm_by_r |-> thickness_delta,
       thickness_stats |-> IF thickness_delta = <<>> THEN <<>>
                           ELSE <<_summary_stats(thickness_delta[1])>>,
       z_stats |-> _summary_stats(Minus(baseline.z_mm_by_r, perturbed.z_mm_by_r)),
       warnings |-> Provenance(baseline, perturbed)]

\* sheath_metrics_2 is <<>> (None) or <<SheathMetrics>>
compute_viz_curves(sheath_metrics, sheath_metrics_2) ==
  LET thickness == sheath_metrics.thickness_mm_by_r
      both == thickness # <<>> /\ sheath_metrics_2[1].thickness_mm_by_r # <<>>
  IN  [sheath_z_mm_by_r |-> sheath_metrics.z_mm_by_r,
       sheath_thickness_mm_by_r |-> thickness,
       delta_sheath_z_mm_by_r |->
         IF sheath_metrics_2 = <<>> THEN <<>>
         ELSE <<Minus(sheath_metrics.z_mm_by_r, sheath_metrics_2[1].z_mm_by_r)>>,
       delta_sheath_thickness_mm_by_r |->
         IF sheath_metrics_2 # <<>> /\ both
         THEN <<Minus(thickness[1], sheath_metrics_2[1].thickness_mm_by_r[1])>>
         ELSE <<>>,
       warnings |->
         sheath_metrics.warnings
           \o (IF thickness = <<>>
               THEN <<"sheath thickness missing; sheath_thickness_mm_by_r unavailable">>
               ELSE <<>>)
           \o (IF sheath_metrics_2 # <<>> /\ ~both
               THEN <<"sheath thickness missing; delta thickness unavailable">>
               ELSE <<>>)]

compute_delta_insights(baseline, perturbed) ==
  LET \* delta_value on a <<mean, min, max>> triple, None when a side is None
      delta_value(a, b) ==
        IF a = <<>> \/ b = <<>> THEN <<>> ELSE <<[i \in 1 .. 3 |-> b[1][i] - a[1][i]]>>
  IN    LET e_delta == delta_list(baseline.E_on_sheath_by_r, perturbed.E_on_sheath_by_r,
                                  "E_on_sheath_by_r")
            ne_delta == delta_list(baseline.ne_on_sheath_by_r, perturbed.ne_on_sheath_by_r,
                                   "ne_on_sheath_by_r")
            thickness_delta == delta_list(baseline.sheath_thickness_mm_by_r,
                                          perturbed.sheath_thickness_mm_by_r,
                                          "sheath_thickness_mm_by_r")
            sheath_z_delta == delta_list(<<baseline.sheath_z_mm_by_r>>, <<perturbed.sheath_z_mm_by_r>>,
                                         "sheath_z_mm_by_r")
        IN  [r_mm |-> baseline.r_mm,
             sheath_z_mm_by_r |-> IF sheath_z_delta.value = <<>> THEN <<>> ELSE sheath_z_delta.value[1],
             sheath_thickness_mm_by_r |-> thickness_delta.value,
             E_on_sheath_by_r |-> e_delta.value,
             ne_on_sheath_by_r |-> ne_delta.value,
             summary |-> [e_on_sheath |-> delta_value(baseline.summary.e_on_sheath,
                                                      perturbed.summary.e_on_sheath),
                          ne_on_sheath |-> delta_value(baseline.summary.ne_on_sheath,
                                                       perturbed.summary.ne_on_sheath),
                          thickness |-> delta_value(baseline.summary.thickness,
                                                    perturbed.summary.thickness)],
             warnings |-> Provenance(baseline, perturbed)
                            \o e_delta.warnings \o ne_delta.warnings
                            \o thickness_delta.warnings \o sheath_z_delta.warnings
                            \o (IF Len(baseline.r_mm) # Len(perturbed.r_mm)
                                THEN <<"r_mm length mismatch; using baseline r_mm">> ELSE <<>>)]

compute_delta_ion_proxy(baseline, perturbed) ==
  LET energy_delta == delta_list(baseline.ion_energy_proxy_rel_by_r,
                                 perturbed.ion_energy_proxy_rel_by_r,
                                 "ion_energy_proxy_rel_by_r")
      flux_delta == delta_list(baseline.ion_flux_proxy_rel_by_r,
                               perturbed.ion_flux_proxy_rel_by_r,
                               "ion_flux_proxy_rel_by_r")
  IN  [ion_energy_proxy_rel_by_r |-> energy_delta.value,
       ion_flux_proxy_rel_by_r |-> flux_delta.value,
       warnings |-> Provenance(baseline, perturbed)
                      \o energy_delta.warnings \o flux_delta.warnings]

\* ------------------------------------------------- diagnostics of a solve

\* --------------------------------- run_simulation_poisson_v1: the outputs
\* a second solve whenever the baseline flag is set
run_compare_Always(r) == r.baseline_enabled

run_compare(r) ==
  r.baseline_enabled /\ (r.efield \/ r.ne \/ r.volume_loss_density \/ r.sheath)

\* r holds the four output toggles, baseline_enabled, the primary solve r.base
\* and the solve at the perturbed voltage r.pert; an Optional is <<>> or <<v>>
Outputs(r) ==
  LET \* ne_2d is the Optional density grid
      compute_ion_proxy(sheath_metrics, ne_2d, s) ==
        [ion_energy_proxy_rel_by_r |->
           IF sheath_metrics.electrode_z_mm_by_r = <<>> THEN <<>> ELSE <<s.energy>>,
         ion_flux_proxy_rel_by_r |-> IF ne_2d = <<>> THEN <<>> ELSE <<s.flux>>,
         warnings |->
           (IF sheath_metrics.electrode_z_mm_by_r = <<>>
            THEN <<"electrode_z_mm_by_r missing; ion_energy_proxy unavailable">>
            ELSE s.energy_warnings)
             \o (IF ne_2d = <<>> THEN <<"ne missing; ion_flux_proxy unavailable">> ELSE <<>>)]
  IN    LET \* E_mag and ne are the Optional grids of the FieldGrid passed in
            compute_insights(E_mag, ne, sheath_metrics, s, r_values) ==
              LET e_on_sheath == IF E_mag = <<>> THEN <<>> ELSE <<s.e_s>>
                  ne_on_sheath == IF ne = <<>> THEN <<>> ELSE <<s.ne_s>>
              IN  [r_mm |-> r_values,
                   sheath_z_mm_by_r |-> sheath_metrics.z_mm_by_r,
                   sheath_thickness_mm_by_r |-> sheath_metrics.thickness_mm_by_r,
                   E_on_sheath_by_r |-> e_on_sheath,
                   ne_on_sheath_by_r |-> ne_on_sheath,
                   summary |-> [e_on_sheath |-> _summary_stats_optional(e_on_sheath),
                                ne_on_sheath |-> _summary_stats_optional(ne_on_sheath),
                                thickness |-> _summary_stats_optional(sheath_metrics.thickness_mm_by_r)],
                   warnings |-> sheath_metrics.warnings
                                  \o (IF E_mag = <<>> THEN <<"E_mag missing; E_on_sheath_by_r omitted">>
                                      ELSE <<>>)
                                  \o (IF ne = <<>> THEN <<"ne field missing; ne_on_sheath_by_r omitted">>
                                      ELSE <<>>)]
        IN    LET \* A solve s holds what solve_phi, compute_Emag, solve_ne_drift_diffusion_sg,
                  \* compute_volume_loss_density, build_sheath and the samplers return for one
                  \* boundary voltage: the grids e_mag, ne, vld and the per-column lists z
                  \* (sheath), electrode_z, e_s and ne_s (fields sampled on the sheath), energy and
                  \* flux (ion proxies), with the warnings of the electrode estimate and of the
                  \* energy proxy.
                  compute_sheath_metrics(s) ==
                    LET thickness == [j \in 1 .. Len(s.z) |-> Abs(s.z[j] - s.electrode_z[j])]
                    IN  [z_mm_by_r |-> s.z,
                         electrode_z_mm_by_r |-> <<s.electrode_z>>,
                         thickness_mm_by_r |-> <<thickness>>,
                         thickness_stats |-> <<_summary_stats(thickness)>>,
                         z_stats |-> _summary_stats(s.z),
                         warnings |-> s.sheath_warnings]
              IN    LET need_ne_solver == r.ne \/ r.volume_loss_density
                        r_values == [j \in 1 .. NR |-> j - 1]
                        ne_norm_raw == IF need_ne_solver THEN <<r.base.ne>> ELSE <<>>
                        volume_loss_density == IF r.volume_loss_density THEN <<r.base.vld>> ELSE <<>>
                        fields_e == IF r.efield THEN <<r.base.e_mag>> ELSE <<>>
                        fields_ne == IF r.ne THEN ne_norm_raw ELSE <<>>
                        sheath_metrics == IF r.sheath THEN <<compute_sheath_metrics(r.base)>> ELSE <<>>
                        insights ==
                          IF r.sheath /\ (fields_e # <<>> \/ fields_ne # <<>>)
                          THEN <<compute_insights(fields_e, fields_ne, sheath_metrics[1], r.base, r_values)>>
                          ELSE <<>>
                        ion_proxy == IF r.sheath
                                     THEN <<compute_ion_proxy(sheath_metrics[1], ne_norm_raw, r.base)>>
                                     ELSE <<>>
                        ne_norm2 == IF need_ne_solver THEN <<r.pert.ne>> ELSE <<>>
                        sheath_metrics_2 == IF run_compare(r) /\ r.sheath
                                            THEN <<compute_sheath_metrics(r.pert)>> ELSE <<>>
                        delta_sheath_metrics ==
                          IF sheath_metrics_2 = <<>> THEN <<>>
                          ELSE <<compute_delta_sheath_metrics(sheath_metrics[1], sheath_metrics_2[1])>>
                        delta_insights ==
                          IF sheath_metrics_2 = <<>> \/ insights = <<>> THEN <<>>
                          ELSE <<compute_delta_insights(
                                   insights[1],
                                   compute_insights(IF r.efield THEN <<r.pert.e_mag>> ELSE <<>>,
                                                    IF r.ne THEN ne_norm2 ELSE <<>>,
                                                    sheath_metrics_2[1], r.pert, r_values))>>
                        delta_ion_proxy ==
                          IF sheath_metrics_2 = <<>> THEN <<>>
                          ELSE <<compute_delta_ion_proxy(
                                   ion_proxy[1], compute_ion_proxy(sheath_metrics_2[1], ne_norm2, r.pert))>>
                        delta(a, b) == [k \in K |-> [j \in J |-> b[k][j] - a[k][j]]]
                        delta_e == IF r.efield THEN <<delta(r.base.e_mag, r.pert.e_mag)>> ELSE <<>>
                        delta_ne == IF r.ne THEN <<delta(r.base.ne, r.pert.ne)>> ELSE <<>>
                        delta_vld == IF r.volume_loss_density THEN <<delta(r.base.vld, r.pert.vld)>> ELSE <<>>
                    IN  [solves |-> IF run_compare(r) THEN 2 ELSE 1,
                         ne_solver |-> IF need_ne_solver THEN <<[warnings |-> r.base.ne_warnings]>> ELSE <<>>,
                         fields |-> IF fields_e # <<>> \/ fields_ne # <<>> \/ volume_loss_density # <<>>
                                    THEN <<[E_mag |-> fields_e, ne |-> fields_ne,
                                            volume_loss_density |-> volume_loss_density]>>
                                    ELSE <<>>,
                         sheath_metrics |-> sheath_metrics,
                         insights |-> insights,
                         ion_proxy |-> ion_proxy,
                         viz |-> IF r.sheath THEN <<compute_viz_curves(sheath_metrics[1], sheath_metrics_2)>>
                                 ELSE <<>>,
                         compare |->
                           IF ~run_compare(r) THEN <<>>
                           ELSE <<[enabled |-> TRUE,
                                   delta_fields |->
                                     IF delta_e # <<>> \/ delta_ne # <<>> \/ delta_vld # <<>>
                                     THEN <<[E_mag |-> delta_e, ne |-> delta_ne,
                                             volume_loss_density |-> delta_vld]>>
                                     ELSE <<>>,
                                   delta_sheath_thickness_mm |->
                                     IF delta_sheath_metrics # <<>>
                                          /\ delta_sheath_metrics[1].thickness_mm_by_r # <<>>
                                     THEN <<_summary_stats(delta_sheath_metrics[1].thickness_mm_by_r[1])[1]>>
                                     ELSE <<>>,
                                   delta_sheath_metrics |-> delta_sheath_metrics,
                                   delta_insights |-> delta_insights,
                                   delta_ion_proxy |-> delta_ion_proxy]>>]

\* ------------------------------------- calls of the comparison functions
\* a list comprehension over range(len(baseline)) that indexes the perturbed
\* list ends in IndexError when that list is shorter
CallDeltaSheath ==
  /\ pc = "call" /\ req.call = "compute_delta_sheath_metrics"
  /\ LET b == req.baseline
         p == req.perturbed
         IndexError ==
           \/ Shorter(b.z_mm_by_r, p.z_mm_by_r)
           \/ /\ b.thickness_mm_by_r # <<>> /\ p.thickness_mm_by_r # <<>>
              /\ p.thickness_mm_by_r[1] # <<>>
              /\ Shorter(b.thickness_mm_by_r[1], p.thickness_mm_by_r[1])
     IN  /\ pc' = IF IndexError THEN "raised" ELSE "returned"
         /\ res' = IF IndexError THEN res ELSE compute_delta_sheath_metrics(b, p)
  /\ UNCHANGED <<req, env>>

CallViz ==
  /\ pc = "call" /\ req.call = "compute_viz_curves"
  /\ LET b == req.baseline
         IndexError ==
           /\ req.perturbed # <<>>
           /\ \/ Shorter(b.z_mm_by_r, req.perturbed[1].z_mm_by_r)
              \/ /\ b.thickness_mm_by_r # <<>> /\ req.perturbed[1].thickness_mm_by_r # <<>>
                 /\ Shorter(b.thickness_mm_by_r[1], req.perturbed[1].thickness_mm_by_r[1])
     IN  /\ pc' = IF IndexError THEN "raised" ELSE "returned"
         /\ res' = IF IndexError THEN res ELSE compute_viz_curves(b, req.perturbed)
  /\ UNCHANGED <<req, env>>

CallDeltaInsights ==
  /\ pc = "call" /\ req.call = "compute_delta_insights"
  /\ res' = compute_delta_insights(req.baseline, req.perturbed)
  /\ pc' = "returned"
  /\ UNCHANGED <<req, env>>

CallDeltaIonProxy ==
  /\ pc = "call" /\ req.call = "compute_delta_ion_proxy"
  /\ res' = compute_delta_ion_proxy(req.baseline, req.perturbed)
  /\ pc' = "returned"
  /\ UNCHANGED <<req, env>>

CallOutputs ==
  /\ pc = "call" /\ req.call = "run_simulation_poisson_v1"
  /\ res' = Outputs(req)
  /\ pc' = "returned"
  /\ UNCHANGED <<req, env>>

InitCompare ==
  LET Lists == {<<0, FP>>, <<FP, 3 * FP>>, <<FP>>}
      Opt(S) == {<<>>} \cup {<<x>> : x \in S}
      Warnings == {<<>>, <<"no powered electrode surface tag found">>,
                   <<"no powered electrode surface tag found",
                     "ne missing; ion_flux_proxy unavailable">>}
      Metrics == [z_mm_by_r : Lists, thickness_mm_by_r : Opt(Lists \cup {<<>>}),
                  warnings : Warnings]
      Insights == {[r_mm |-> m.r_mm, sheath_z_mm_by_r |-> m.z, sheath_thickness_mm_by_r |-> m.t,
                    E_on_sheath_by_r |-> m.e, ne_on_sheath_by_r |-> m.n,
                    summary |-> [e_on_sheath |-> _summary_stats_optional(m.e),
                                 ne_on_sheath |-> _summary_stats_optional(m.n),
                                 thickness |-> _summary_stats_optional(m.t)],
                    warnings |-> m.w] :
                   m \in [r_mm : {<<0, 1>>, <<0>>}, z : {<<0, FP>>, <<FP>>},
                          t : Opt({<<FP, 3 * FP>>}), e : Opt(Lists), n : Opt({<<0, FP>>}),
                          w : {<<>>, <<"E_mag missing; E_on_sheath_by_r omitted">>}]}
      IonProxy == [ion_energy_proxy_rel_by_r : Opt(Lists), ion_flux_proxy_rel_by_r : Opt(Lists),
                   warnings : Warnings]
      Solve(a, w) ==
        [e_mag |-> [k \in K |-> [j \in J |-> a * (k + j + 1)]],
         ne |-> [k \in K |-> [j \in J |-> a * a + j]],
         vld |-> [k \in K |-> [j \in J |-> 2 * a + k]],
         z |-> [j \in 1 .. NR |-> a + j],
         electrode_z |-> [j \in 1 .. NR |-> 2 * j],
         e_s |-> [j \in 1 .. NR |-> a * j],
         ne_s |-> [j \in 1 .. NR |-> a + 2 * j],
         energy |-> [j \in 1 .. NR |-> 3 * a + j],
         flux |-> [j \in 1 .. NR |-> a * a * j],
         sheath_warnings |-> w,
         energy_warnings |->
           IF a = 1
           THEN <<"phi appears normalized; ion_energy_proxy is relative, not absolute eV">>
           ELSE <<>>,
         ne_warnings |-> IF a = 3 THEN <<"spsolve failed: non-finite solution; using GS">>
                         ELSE <<>>]
      Solves == {Solve(a, w) : a \in 1 .. 3,
                               w \in {<<>>, <<"no powered electrode surface tag found">>}}
  IN  /\ pc = "call"
      /\ env = [sp |-> TRUE]
      /\ res = <<>>
      /\ req \in
           [call : {"compute_delta_sheath_metrics"}, baseline : Metrics, perturbed : Metrics]
             \cup [call : {"compute_viz_curves"}, baseline : Metrics, perturbed : Opt(Metrics)]
             \cup [call : {"compute_delta_insights"}, baseline : Insights, perturbed : Insights]
             \cup [call : {"compute_delta_ion_proxy"}, baseline : IonProxy, perturbed : IonProxy]
             \cup [call : {"run_simulation_poisson_v1"}, efield : BOOLEAN, ne : BOOLEAN,
                   volume_loss_density : BOOLEAN, sheath : BOOLEAN,
                   baseline_enabled : BOOLEAN, base : Solves, pert : Solves]

NextCompare ==
  CallDeltaSheath \/ CallViz \/ CallDeltaInsights \/ CallDeltaIonProxy \/ CallOutputs

SpecCompare == InitCompare /\ [][NextCompare]_vars

\* ------------------------------------------ properties of the comparison
Returned(call) == pc = "returned" /\ req.call = call

Compared == Returned("run_simulation_poisson_v1") /\ res.compare # <<>>

\* C12: with a comparison made, every entry of compare.delta_fields and every
\* per-column delta (sheath z, sheath thickness, E and ne on the sheath, ion
\* energy and flux proxies, the delta curves of viz) is the value of the
\* perturbed solve minus the value of the primary solve at the same index, and
\* compare.delta_sheath_thickness_mm is the mean of the per-column thickness
\* deltas.
C12_DeltaIsPerturbedMinusBaseline ==
  Compared =>
    LET c == res.compare[1]
        b == req.base
        p == req.pert
        thickness(s, j) == Abs(s.z[j] - s.electrode_z[j])
        Cols == 1 .. NR
    IN  /\ c.delta_fields # <<>> =>
             \A x \in Cells :
               /\ c.delta_fields[1].E_mag # <<>> =>
                    c.delta_fields[1].E_mag[1][x[1]][x[2]]
                      = p.e_mag[x[1]][x[2]] - res.fields[1].E_mag[1][x[1]][x[2]]
               /\ c.delta_fields[1].ne # <<>> =>
                    c.delta_fields[1].ne[1][x[1]][x[2]]
                      = p.ne[x[1]][x[2]] - res.fields[1].ne[1][x[1]][x[2]]
               /\ c.delta_fields[1].volume_loss_density # <<>> =>
                    c.delta_fields[1].volume_loss_density[1][x[1]][x[2]]
                      = p.vld[x[1]][x[2]] - res.fields[1].volume_loss_density[1][x[1]][x[2]]
        /\ c.delta_sheath_metrics # <<>> =>
             /\ \A j \in Cols :
                  /\ c.delta_sheath_metrics[1].z_mm_by_r[j]
                       = p.z[j] - res.sheath_metrics[1].z_mm_by_r[j]
                  /\ c.delta_sheath_metrics[1].thickness_mm_by_r[1][j]
                       = thickness(p, j) - res.sheath_metrics[1].thickness_mm_by_r[1][j]
                  /\ res.viz[1].delta_sheath_z_mm_by_r[1][j] = p.z[j] - b.z[j]
                  /\ res.viz[1].delta_sheath_thickness_mm_by_r[1][j]
                       = thickness(p, j) - thickness(b, j)
             /\ c.delta_sheath_thickness_mm
                  = <<SeqSum([j \in Cols |-> thickness(p, j) - thickness(b, j)]) \div NR>>
        /\ c.delta_insights # <<>> =>
             \A j \in Cols :
               /\ c.delta_insights[1].E_on_sheath_by_r # <<>> =>
                    c.delta_insights[1].E_on_sheath_by_r[1][j]
                      = p.e_s[j] - res.insights[1].E_on_sheath_by_r[1][j]
               /\ c.delta_insights[1].ne_on_sheath_by_r # <<>> =>
                    c.delta_insights[1].ne_on_sheath_by_r[1][j]
                      = p.ne_s[j] - res.insights[1].ne_on_sheath_by_r[1][j]
               /\ c.delta_insights[1].sheath_z_mm_by_r[j] = p.z[j] - b.z[j]
               /\ c.delta_insights[1].sheath_thickness_mm_by_r[1][j]
                    = thickness(p, j) - thickness(b, j)
        /\ c.delta_ion_proxy # <<>> =>
             \A j \in Cols :
               /\ c.delta_ion_proxy[1].ion_energy_proxy_rel_by_r[1][j]
                    = p.energy[j] - res.ion_proxy[1].ion_energy_proxy_rel_by_r[1][j]
               /\ c.delta_ion_proxy[1].ion_flux_proxy_rel_by_r # <<>> =>
                    c.delta_ion_proxy[1].ion_flux_proxy_rel_by_r[1][j]
                      = p.flux[j] - res.ion_proxy[1].ion_flux_proxy_rel_by_r[1][j]

\* every output on, the two solves differ, and a sheath thickness changed
C12_Witness ==
  /\ Compared
  /\ req.efield /\ req.ne /\ req.volume_loss_density /\ req.sheath
  /\ res.compare[1].delta_insights # <<>> /\ res.compare[1].delta_ion_proxy # <<>>
  /\ res.compare[1].delta_fields[1].E_mag[1][0][0] > 0
  /\ res.compare[1].delta_sheath_thickness_mm # <<0>>
  /\ res.compare[1].delta_sheath_metrics[1].z_mm_by_r[1] > 0

\* a diagnostic is missing on a side, or the sides differ in length
Unavailable(a, b) == a = <<>> \/ b = <<>> \/ Len(a[1]) # Len(b[1])

\* the warnings a delta builder adds to those of its two operands
Added == SubSeq(res.warnings,
                Len(req.baseline.warnings) + Len(req.perturbed.warnings) + 1,
                Len(res.warnings))

\* C13: in every delta builder, when a diagnostic is None on the baseline or on
\* the perturbed side, or the sides differ in length, the builder returns with
\* that delta None and with a warning added for it.
C13_Claimed ==
  LET b == req.baseline
      p == req.perturbed
      Omitted(x, y, d, label) ==
        Unavailable(x, y) =>
          /\ d = <<>>
          /\ \E i \in 1 .. Len(res.warnings) :
               res.warnings[i] \in {label \o " missing for delta",
                                    label \o " length mismatch for delta"}
  IN  /\ (pc # "call" /\ req.call = "compute_delta_sheath_metrics") =>
            /\ pc = "returned"
            /\ Unavailable(b.thickness_mm_by_r, p.thickness_mm_by_r) =>
                 res.thickness_mm_by_r = <<>> /\ Added # <<>>
            /\ Len(b.z_mm_by_r) # Len(p.z_mm_by_r) => Added # <<>>
      /\ Returned("compute_delta_insights") =>
            /\ Omitted(b.E_on_sheath_by_r, p.E_on_sheath_by_r,
                       res.E_on_sheath_by_r, "E_on_sheath_by_r")
            /\ Omitted(b.ne_on_sheath_by_r, p.ne_on_sheath_by_r,
                       res.ne_on_sheath_by_r, "ne_on_sheath_by_r")
            /\ Omitted(b.sheath_thickness_mm_by_r, p.sheath_thickness_mm_by_r,
                       res.sheath_thickness_mm_by_r, "sheath_thickness_mm_by_r")
      /\ Returned("compute_delta_ion_proxy") =>
            /\ Omitted(b.ion_energy_proxy_rel_by_r, p.ion_energy_proxy_rel_by_r,
                       res.ion_energy_proxy_rel_by_r, "ion_energy_proxy_rel_by_r")
            /\ Omitted(b.ion_flux_proxy_rel_by_r, p.ion_flux_proxy_rel_by_r,
                       res.ion_flux_proxy_rel_by_r, "ion_flux_proxy_rel_by_r")

\* C14 (as stated): whenever baseline.enabled is set the run makes the second
\* solve and returns a compare block, for every combination of the toggles.
C14_Claimed ==
  Returned("run_simulation_poisson_v1") =>
    IF req.baseline_enabled THEN res.solves = 2 /\ res.compare # <<>>
    ELSE res.solves = 1 /\ res.compare = <<>>

\* C14: the run makes the second solve and returns a compare block with
\* enabled = true exactly when baseline.enabled is set and at least one of the
\* four output toggles is on; the block then holds a delta for every field
\* and every diagnostic block populated in the primary result. Otherwise there
\* is one solve and no compare block.
C14_CompareWhenAnyOutput ==
  Returned("run_simulation_poisson_v1") =>
    IF req.baseline_enabled
         /\ (req.efield \/ req.ne \/ req.volume_loss_density \/ req.sheath)
    THEN /\ res.solves = 2 /\ res.compare # <<>> /\ res.compare[1].enabled
         /\ res.fields # <<>> =>
              /\ res.compare[1].delta_fields # <<>>
              /\ \A f \in {"E_mag", "ne", "volume_loss_density"} :
                   res.fields[1][f] # <<>> => res.compare[1].delta_fields[1][f] # <<>>
         /\ res.sheath_metrics # <<>> =>
              /\ res.compare[1].delta_sheath_metrics # <<>>
              /\ res.compare[1].delta_sheath_thickness_mm # <<>>
              /\ res.viz[1].delta_sheath_z_mm_by_r # <<>>
         /\ res.insights # <<>> => res.compare[1].delta_insights # <<>>
         /\ res.ion_proxy # <<>> => res.compare[1].delta_ion_proxy # <<>>
    ELSE res.solves = 1 /\ res.compare = <<>>

\* a comparison made with the sheath output alone: deltas of the sheath
\* metrics and of the ion proxy, no delta fields and no delta insights
C14_Witness ==
  /\ Returned("run_simulation_poisson_v1") /\ req.baseline_enabled
  /\ req.sheath /\ ~req.efield /\ ~req.ne /\ ~req.volume_loss_density
  /\ res.solves = 2 /\ res.compare[1].delta_sheath_metrics # <<>>
  /\ res.compare[1].delta_ion_proxy # <<>>
  /\ res.compare[1].delta_fields = <<>> /\ res.compare[1].delta_insights = <<>>

\* C15: the warnings of a delta diagnostic start with every warning of the
\* baseline side prefixed "baseline: ", in order, followed by every warning of
\* the perturbed side prefixed "perturbed: ", in order; this holds for
\* compute_delta_sheath_metrics, compute_delta_insights and
\* compute_delta_ion_proxy.
C15_WarningProvenance ==
  (pc = "returned" /\ req.call \in {"compute_delta_sheath_metrics", "compute_delta_insights",
                                     "compute_delta_ion_proxy"}) =>
    LET nb == Len(req.baseline.warnings)
        np == Len(req.perturbed.warnings)
    IN  /\ Len(res.warnings) >= nb + np
        /\ \A i \in 1 .. nb : res.warnings[i] = "baseline: " \o req.baseline.warnings[i]
        /\ \A i \in 1 .. np : res.warnings[nb + i] = "perturbed: " \o req.perturbed.warnings[i]

\* both sides carry warnings and the builder adds one of its own
C15_Witness ==
  /\ Returned("compute_delta_insights")
  /\ Len(req.baseline.warnings) > 0 /\ Len(req.perturbed.warnings) > 0
  /\ Added # <<>>

\* every warnings list of a result
ResultWarningLists ==
  LET of(block) == IF block = <<>> THEN {} ELSE {block[1].warnings}
  IN  of(res.ne_solver) \cup of(res.sheath_metrics) \cup of(res.insights)
        \cup of(res.viz) \cup of(res.ion_proxy)
        \cup (IF res.compare = <<>> THEN {}
              ELSE of(res.compare[1].delta_sheath_metrics)
                     \cup of(res.compare[1].delta_insights)
                     \cup of(res.compare[1].delta_ion_proxy))

\* some warnings list of the result holds one of the messages
Warned(messages) ==
  \E w \in ResultWarningLists : \E i \in 1 .. Len(w) : w[i] \in messages

\* C19: for every combination of the output toggles, when the insights, the
\* ion-proxy curves or the viz curves are absent from the result, or E or ne
\* on the sheath or an ion-proxy curve is None, some warnings list of the
\* result says so.
C19_Claimed ==
  Returned("run_simulation_poisson_v1") =>
    /\ (res.insights = <<>> \/ res.ion_proxy = <<>> \/ res.viz = <<>>) =>
         \E w \in ResultWarningLists : w # <<>>
    /\ (res.insights # <<>> /\ res.insights[1].E_on_sheath_by_r = <<>>) =>
         Warned({"E_mag missing; E_on_sheath_by_r omitted"})
    /\ (res.insights # <<>> /\ res.insights[1].ne_on_sheath_by_r = <<>>) =>
         Warned({"ne field missing; ne_on_sheath_by_r omitted"})
    /\ (res.ion_proxy # <<>> /\ res.ion_proxy[1].ion_flux_proxy_rel_by_r = <<>>) =>
         Warned({"ne missing; ion_flux_proxy unavailable"})

\* =============================================== volume_loss_density
\* MaxVld is the upper clamp 3.6 of the field
MaxVld == (36 * FP) \div 10

\* r.e_mag is the field of compute_Emag; r.coupling stands for the product of
\* the plasma, material, power, frequency, DC-bias, multi-source, source and
\* sink factors, each clamped to a positive range (product in [0.006, 50.4])
compute_volume_loss_density(r, geometry_mask) ==
  LET \* <<max, mean>> of the positive values within the radius
      _neighbor_max_mean(field, k, j, radius) ==
        LET near == {c \in Cells : /\ Abs(c[1] - k) <= radius /\ Abs(c[2] - j) <= radius
                                   /\ field[c[1]][c[2]] > 0}
        IN  IF near = {} THEN <<0, 0>>
            ELSE <<SetMax({field[c[1]][c[2]] : c \in near}),
                   SetSum(near, [c \in near |-> field[c[1]][c[2]]]) \div Cardinality(near)>>
      _collect_outlet_sinks == IF r.outlets # <<>> THEN r.outlets ELSE r.outlet
      outlet_tags == {_collect_outlet_sinks[i].surface_tag :
                        i \in 1 .. Len(_collect_outlet_sinks)} \ {""}
      outlet_exclusion(k, j) ==
        \E t \in outlet_tags : HasMask(r.tag_mask, t) /\ r.tag_mask.masks[t][k][j]
      \* rf_influence: the seeds under the tags of the RF sources, spread by
      \* one cell a step for 8 steps with decay 0.84
      seeds == {c \in Cells : \E t \in r.rf_tags :
                  HasMask(r.tag_mask, t) /\ r.tag_mask.masks[t][c[1]][c[2]]}
      contact(k, j) ==
        seeds = {} \/ \E c \in seeds : Abs(c[1] - k) + Abs(c[2] - j) <= 8
      e_interface(k, j) ==
        LET nb == _neighbor_max_mean(r.e_mag, k, j, 2)
        IN  Max2(r.e_mag[k][j], Max2((90 * nb[1]) \div 100, (65 * nb[2]) \div 100))
      skipped(k, j) ==
        \/ outlet_exclusion(k, j)
        \/ geometry_mask # <<>> /\ ~geometry_mask[1][k][j]
        \/ ~contact(k, j)
        \/ e_interface(k, j) <= 0
      e_ref == Max2(SetMax({0} \cup {e_interface(c[1], c[2]) :
                                       c \in {x \in Cells : ~skipped(x[1], x[2])}}), 1)
  IN  [k \in K |-> [j \in J |->
         IF skipped(k, j) THEN 0
         ELSE LET e_rel == _clamp((e_interface(k, j) * FP) \div e_ref, 0, FP)
              IN  _clamp((((e_rel * e_rel) \div FP) * r.coupling) \div FP, 0, MaxVld)]]

\* vld_geometry_mask = build_vld_geometry_mask(request) if enable_vld else None
VldMask ==
  LET \* None (<<>>) without a tag_mask or without a tag outside the excluded names;
      \* the tag names of the model stand for the substrings the code looks for
      build_vld_geometry_mask(r) ==
        LET _is_excluded_vld_tag(tag) ==
              tag \in {"", "chamber", "pump_port", "outlet", "exhaust", "plasma", "solid_wall",
                       "powered_electrode", "ground_electrode", "dielectric"}
            selected == {t \in DOMAIN r.tag_mask.masks : ~_is_excluded_vld_tag(t)}
        IN  IF ~r.tag_mask.present \/ selected = {} THEN <<>>
            ELSE <<[k \in K |-> [j \in J |-> \E t \in selected : r.tag_mask.masks[t][k][j]]]>>
  IN    /\ pc = "vld_request"
        /\ res' = [geometry_mask |-> build_vld_geometry_mask(req), volume_loss_density |-> <<>>]
        /\ pc' = "vld_masked"
        /\ UNCHANGED <<req, env>>

VldCompute ==
  /\ pc = "vld_masked"
  /\ res' = [res EXCEPT !.volume_loss_density =
                          <<compute_volume_loss_density(req, res.geometry_mask)>>]
  /\ pc' = "vld_done"
  /\ UNCHANGED <<req, env>>

\* tag masks: absent, an excluded tag only, a geometry tag on the first
\* column, with a pump tag on the same column, a geometry tag everywhere with a
\* pump tag on the last column
InitVld ==
  /\ pc = "vld_request"
  /\ env = [sp |-> TRUE]
  /\ res = [geometry_mask |-> <<>>, volume_loss_density |-> <<>>]
  /\ req \in
       [tag_mask : { NoTagMask,
                     TagMaskOf([t \in {"plasma"} |-> ColMask(0)]),
                     TagMaskOf([t \in {"liner"} |-> ColMask(0)]),
                     TagMaskOf([t \in {"liner", "pump_port"} |-> ColMask(0)]),
                     TagMaskOf([t \in {"liner", "pump_port"} |->
                                  IF t = "liner" THEN [k \in K |-> [j \in J |-> TRUE]]
                                  ELSE ColMask(NR - 1)]) },
        outlets  : { <<>>, <<[surface_tag |-> "pump_port", strength |-> FP]>>,
                     <<[surface_tag |-> "liner", strength |-> 0]>> },
        outlet   : { <<>>, <<[surface_tag |-> "pump_port", strength |-> FP]>> },
        rf_tags  : { {}, {"liner"} },
        e_mag    : { [k \in K |-> [j \in J |-> 0]],
                     [k \in K |-> [j \in J |-> IF k = 0 THEN FP ELSE 0]],
                     [k \in K |-> [j \in J |-> FP * (k + 1) + j]] },
        coupling : { 1, FP, 50 * FP }]

NextVld == VldMask \/ VldCompute

SpecVld == InitVld /\ [][NextVld]_vars

\* the tags of every outlet of the request, legacy field and list
RequestOutletTags ==
  {req.outlets[i].surface_tag : i \in 1 .. Len(req.outlets)}
    \cup {req.outlet[i].surface_tag : i \in 1 .. Len(req.outlet)}

\* C18: volume_loss_density is 0 at every cell under the tag of an outlet of the
\* request and at every cell under no geometry tag outside the excluded names,
\* for every tag_mask, an absent one and one with excluded tags only included;
\* every value lies in [0, 3.6].
C18_Claimed ==
  pc = "vld_done" =>
    \A c \in Cells :
      LET v == res.volume_loss_density[1][c[1]][c[2]]
          under(t) == HasMask(req.tag_mask, t) /\ req.tag_mask.masks[t][c[1]][c[2]]
      IN  /\ 0 <= v /\ v <= MaxVld
          /\ (\E t \in RequestOutletTags : under(t)) => v = 0
          \* "liner" is the one tag of the model outside the excluded names
          /\ ~under("liner") => v = 0

\* ================================================== two runs, one request
\* The module holds no state a run writes: its globals are constants and the
\* scipy import (env.sp) is settled when the module is loaded. A second
\* invocation starts from fresh locals; env.first keeps the first result.

\* the state of the module changes between the invocations
Again_OtherSolver ==
  /\ pc \in {"fields", "ne_masked"} /\ "first" \notin DOMAIN env
  /\ env' = [sp |-> ~env.sp, first |-> res]
  /\ pc' = IF pc = "fields" THEN "request" ELSE "ne_request"
  /\ res' = IF pc = "fields" THEN NoSolve
            ELSE [ne |-> <<>>, ne_nan |-> <<>>, converged |-> FALSE, iterations |-> 0,
                  fallback_used |-> FALSE, warnings |-> <<>>, gs_ran |-> FALSE,
                  proxy_returned |-> FALSE]
  /\ UNCHANGED req

Again ==
  /\ pc \in {"fields", "ne_masked"} /\ "first" \notin DOMAIN env
  /\ env' = [sp |-> env.sp, first |-> res]
  /\ pc' = IF pc = "fields" THEN "request" ELSE "ne_request"
  /\ res' = IF pc = "fields" THEN NoSolve
            ELSE [ne |-> <<>>, ne_nan |-> <<>>, converged |-> FALSE, iterations |-> 0,
                  fallback_used |-> FALSE, warnings |-> <<>>, gs_ran |-> FALSE,
                  proxy_returned |-> FALSE]
  /\ UNCHANGED req

NextTwice == RunAssemble \/ SolvePhi \/ ComputeEmag \/ SolveNe \/ MaskNe \/ Again

SpecTwice == (InitRun \/ InitNe) /\ [][NextTwice]_vars

\* the second invocation has returned
SecondDone == "first" \in DOMAIN env /\ pc \in {"fields", "ne_masked"}

_sheath_from_phi_drop(phi, phi_nan, r_values, z_values) ==
  LET nz == Len(z_values)
      threshold == FP \div 10
      met(j) == {k \in 0 .. (nz - 1) : ~phi_nan /\ phi[k][j] < threshold}
      z_boundary(j) == IF met(j) = {} THEN z_values[nz]
                       ELSE z_values[SetMin(met(j)) + 1]
  IN  [polyline_mm |-> [n \in 1 .. NR |-> [r_mm |-> r_values[n], z_mm |-> z_boundary(n - 1)]],
       mask |-> [k \in 0 .. (nz - 1) |-> [j \in J |-> z_values[k + 1] <= z_boundary(j)]]]

\* _SHEATH_METHOD is "phi_drop_fraction": build_sheath takes the phi branch
build_sheath(phi, phi_nan, r_values, z_values) ==
  _sheath_from_phi_drop(phi, phi_nan, r_values, z_values)

\* r_values, z_values = _linspace(...); sheath = build_sheath(phi, e_mag, ...)
BuildSheath ==
  LET \* _linspace: the quotient (stop - start) / (count - 1) is rounded to the
      \* nearest representable number, so start + step * (count - 1) can fall
      \* beside stop (in binary64: count = 4, stop = 3.1 gives 3.1000000000000005)
      _linspace(start, stop, count) ==
        LET RoundDiv(a, n) == (2 * a + n) \div (2 * n)
            step == RoundDiv(stop - start, count - 1)
        IN  IF count <= 1 THEN <<start>>
            ELSE [index \in 1 .. count |-> start + step * (index - 1)]
  IN    /\ pc = "sheath_request"
        /\ \E rv \in {_linspace(0, req.r_max_mm, NR)} :
           \E zv \in {_linspace(0, req.z_max_mm, req.nz)} :
             res' = [r_values |-> rv, z_values |-> zv,
                     sheath |-> <<build_sheath(req.phi, req.phi_nan, rv, zv)>>,
                     scaled |-> <<>>]
        /\ pc' = "sheath_built"
        /\ UNCHANGED <<req, env>>

\* the same extraction on the potential multiplied by req.scale
BuildScaledSheath ==
  /\ pc = "sheath_built"
  /\ res' = [res EXCEPT !.scaled =
               <<build_sheath([k \in DOMAIN req.phi |-> [j \in J |-> req.scale * req.phi[k][j]]],
                              req.phi_nan, res.r_values, res.z_values)>>]
  /\ pc' = "sheath_scaled"
  /\ UNCHANGED <<req, env>>

\* potentials of 2 and 4 rows with 0, 0.05 or 0.2 in a cell (0.2 everywhere:
\* the threshold is never met), heights that divide exactly and inexactly
InitSheath ==
  /\ pc = "sheath_request"
  /\ env = [sp |-> TRUE]
  /\ res = [r_values |-> <<>>, z_values |-> <<>>, sheath |-> <<>>, scaled |-> <<>>]
  /\ \E nz \in {2, 4} :
       req \in [nz : {nz},
                phi : [0 .. (nz - 1) -> [J -> {0, FP \div 20, FP \div 5}]],
                phi_nan : {FALSE},
                r_max_mm : {10 * FP},
                z_max_mm : {2 * FP, 3 * FP},
                scale : {2, 3}]
          \cup [nz : {nz},
                phi : {[k \in 0 .. (nz - 1) |-> [j \in J |-> 0]]},
                phi_nan : {TRUE},
                r_max_mm : {10 * FP},
                z_max_mm : {2 * FP, 3 * FP},
                scale : {2}]

NextSheath == BuildSheath \/ BuildScaledSheath

SpecSheath == InitSheath /\ [][NextSheath]_vars

\* the sheath of the request has been built
SheathBuilt == pc \in {"sheath_built", "sheath_scaled"}

\* the boundary z of column j (0-based) of a built sheath
BoundaryZ(sheath, j) == sheath.polyline_mm[j + 1].z_mm

\* C21: build_sheath returns a polyline of exactly nr points in increasing r,
\* each z one of the grid z values and within [0, z_max] (z_max where the
\* threshold is never met), and a mask [nz][nr] that is true exactly where
\* z_values[k] <= the boundary z of the column.
C21_Claimed ==
  SheathBuilt =>
    LET sheath == res.sheath[1]
        rows == 0 .. (req.nz - 1)
    IN  /\ Len(sheath.polyline_mm) = NR
        /\ \A n \in 1 .. (NR - 1) :
             sheath.polyline_mm[n].r_mm < sheath.polyline_mm[n + 1].r_mm
        /\ DOMAIN sheath.mask = rows
        /\ \A j \in J :
             /\ \E k \in rows : BoundaryZ(sheath, j) = res.z_values[k + 1]
             /\ 0 <= BoundaryZ(sheath, j) /\ BoundaryZ(sheath, j) <= req.z_max_mm
             /\ (\A k \in rows : req.phi_nan \/ req.phi[k][j] >= FP \div 10)
                  => BoundaryZ(sheath, j) = req.z_max_mm
             /\ \A k \in rows :
                  sheath.mask[k][j] <=> (res.z_values[k + 1] <= BoundaryZ(sheath, j))

\* C25: the boundary of a column is the first z at which the potential is at
\* or below (1 - fraction) times the maximum of the field, and the sheath does
\* not change when the field is multiplied by a positive constant.
C25_Claimed ==
  pc = "sheath_scaled" =>
    LET sheath == res.sheath[1]
        rows == 0 .. (req.nz - 1)
        phi_max == SetMax({req.phi[k][j] : k \in rows, j \in J})
        below(j) == {k \in rows : ~req.phi_nan /\ 10 * req.phi[k][j] <= phi_max}
    IN  /\ res.scaled = res.sheath
        /\ \A j \in J :
             BoundaryZ(sheath, j) = IF below(j) = {} THEN res.z_values[req.nz]
                                    ELSE res.z_values[SetMin(below(j)) + 1]

\* ============================================ order of the density methods
\* the warnings of the metadata hold the message
NeWarned(msg) == \E n \in 1 .. Len(res.warnings) : res.warnings[n] = msg

\* the direct solve returned a finite solution (converged = True, l.2008)
DirectConverged == env.sp /\ ~NeWarned(SpsolveWarning)

\* C22: with D_e > 0 the methods are tried in the order direct solve,
\* Gauss-Seidel, proxy: Gauss-Seidel runs only if the direct solve is
\* unavailable or failed, the proxy is used only after Gauss-Seidel ran and
\* did not converge, and no later method runs once an earlier one converged.
C22_FixedOrder ==
  (NeSolved /\ req.D_e > 0) =>
    /\ res.gs_ran => (~env.sp \/ NeWarned(SpsolveWarning))
    /\ (res.fallback_used \/ res.proxy_returned) => (res.gs_ran /\ ~res.converged)
    /\ DirectConverged =>
         (res.converged /\ ~res.gs_ran /\ ~res.fallback_used /\ ~res.proxy_returned)
    /\ (res.gs_ran /\ res.converged) => (~res.fallback_used /\ ~res.proxy_returned)

\* the direct solve failed, Gauss-Seidel ran in its place and converged
C22_Witness ==
  /\ pc = "ne_solved" /\ req.D_e > 0
  /\ env.sp /\ NeWarned(SpsolveWarning)
  /\ res.gs_ran /\ res.converged /\ ~res.fallback_used

\* ================================================ _solve_linear_gs, by sweep
\* One action is one pass of "for iteration in range(1, maxiter + 1)".
\* req.b_nan: the right-hand side is NaN in every component. Then each
\* new_value is NaN, "new_value < N_FLOOR" and "delta > max_delta" are False,
\* and max_delta keeps the 0.0 it was set to at the top of the sweep.
\* res.changes keeps, per sweep, max_delta and whether a change was NaN.
GsZeroRows == {i \in DOMAIN req.rows : i \notin DOMAIN req.rows[i] \/ req.rows[i][i] = 0}

GsSweepStep ==
  /\ pc = "gs_sweeping"
  /\ res.iterations < NeMaxIter
  /\ \E sw \in { IF req.b_nan
                 THEN [x |-> res.x, max_delta |-> 0, zero_diag |-> GsZeroRows # {}]
                 ELSE GsSweep(req.rows, req.b, res.x, 0, 0) } :
       /\ res' = [x          |-> sw.x,
                  x_nan      |-> [i \in DOMAIN req.rows |->
                                    \/ res.x_nan[i]
                                    \/ req.b_nan /\ \A z \in GsZeroRows : i < z],
                  iterations |-> res.iterations + 1,
                  converged  |-> ~sw.zero_diag /\ sw.max_delta < NE_TOL,
                  warnings   |-> IF sw.zero_diag THEN <<"zero diagonal in GS solver">> ELSE <<>>,
                  changes    |-> IF sw.zero_diag THEN res.changes
                                 ELSE Append(res.changes,
                                             [max_delta |-> sw.max_delta, nan |-> req.b_nan])]
       /\ pc' = IF sw.zero_diag \/ sw.max_delta < NE_TOL THEN "gs_returned" ELSE "gs_sweeping"
  /\ UNCHANGED <<req, env>>

\* the loop ran maxiter sweeps: return x, converged (False), maxiter, ...
GsExhausted ==
  /\ pc = "gs_sweeping"
  /\ res.iterations = NeMaxIter
  /\ pc' = "gs_returned"
  /\ UNCHANGED <<req, env, res>>

\* systems of two unknowns: diagonally dominant, growing, zero diagonal in
\* the second row, no diagonal entry in the first row
InitGs ==
  /\ pc = "gs_sweeping"
  /\ env = [sp |-> FALSE]
  /\ req \in [rows  : LET Row(a, b) == [c \in {0, 1} |-> IF c = 0 THEN a ELSE b]
                            Mat(r0, r1) == [i \in {0, 1} |-> IF i = 0 THEN r0 ELSE r1]
                        IN  { Mat(Row(4 * FP, -FP), Row(-FP, 4 * FP)),
                              Mat(Row(FP, -2 * FP), Row(-2 * FP, FP)),
                              Mat(Row(4 * FP, -FP), Row(-FP, 0)),
                              Mat([c \in {1} |-> -FP], Row(-FP, 4 * FP)) },
              b     : [{0, 1} -> {0, FP, 3 * FP}],
              x0    : [{0, 1} -> {0, FP}],
              b_nan : BOOLEAN]
  /\ res = [x |-> req.x0, x_nan |-> [i \in {0, 1} |-> FALSE], iterations |-> 0,
            converged |-> FALSE, warnings |-> <<>>, changes |-> <<>>]

NextGs == GsSweepStep \/ GsExhausted

SpecGs == InitGs /\ [][NextGs]_vars

\* C27: _solve_linear_gs returns after at most maxiter sweeps; converged is
\* true exactly when the largest component change of some sweep was below tol;
\* a missing or zero diagonal entry returns converged = false at once, with
\* the "zero diagonal" warning.
C27_Claimed ==
  /\ res.iterations <= NeMaxIter /\ Len(res.changes) <= NeMaxIter
  /\ pc = "gs_returned" =>
       /\ res.converged <=>
            \E n \in 1 .. Len(res.changes) :
              ~res.changes[n].nan /\ res.changes[n].max_delta < NE_TOL
       /\ GsZeroRows # {} =>
            /\ ~res.converged /\ res.iterations = 1
            /\ res.warnings = <<"zero diagonal in GS solver">>

\* ===================================================== the density floor
\* ne_raw of l.2031: the solution of the linear solve, or n_ref after the
\* fallback of l.2025-2029, before _to_density_observable
RawDensity == ProxyFallback(LinearSolve(req, n_ref_of(req), env.sp), n_ref_of(req), req.phi_nan)

\* C28: on every outcome of the solve (direct, Gauss-Seidel, proxy fallback
\* after non-convergence) each component of the raw density handed to the
\* transfer curve is at least N_FLOOR.
C28_Claimed ==
  (NeSolved /\ req.D_e > 0) =>
    \A i \in NeUnknowns : ~RawDensity.x_nan[i] /\ RawDensity.x[i] >= N_FLOOR

\* ============================================ converged versus fallback_used
\* C30: in the metadata returned by solve_ne_drift_diffusion_sg converged and
\* fallback_used are never both true, and a converged solve returns the
\* solution of the linear solve mapped through the transfer curve, not the
\* proxy.
C30_ConvergedExcludesFallback ==
  NeSolved =>
    /\ ~(res.converged /\ res.fallback_used)
    /\ res.converged =>
         /\ ~res.proxy_returned /\ req.D_e > 0
         /\ pc = "ne_solved" =>
              LET s == LinearSolve(req, n_ref_of(req), env.sp)
              IN  \A c \in Cells :
                    res.ne[c[1]][c[2]] =
                      IF s.x_nan[idx(NR, c[1], c[2])] THEN 0
                      ELSE DensityObservable(req, s.x[idx(NR, c[1], c[2])])

\* a converged direct solve with a positive density in some cell
C30_Witness ==
  /\ pc = "ne_solved" /\ req.D_e > 0 /\ env.sp
  /\ res.converged /\ ~res.fallback_used /\ ~res.gs_ran
  /\ \E c \in Cells : res.ne[c[1]][c[2]] > 0

\* ================================================= symmetry of the matrix
\* A[i][j] of the assembled rows: an absent key is 0
MatrixEntry(i, j) == IF j \in DOMAIN res.rows[i] THEN res.rows[i][j] ELSE 0

\* C26: the matrix assembled by assemble_poisson_matrix is symmetric after
\* Dirichlet elimination: A[i][j] = A[j][i] for every pair of cells, the cells
\* on the edges of the domain included.
C26_Claimed ==
  pc \in {"assembled", "solved", "fields"} =>
    \A i \in DOMAIN res.rows : \A j \in DOMAIN res.rows : MatrixEntry(i, j) = MatrixEntry(j, i)

\* ============================================== _spread_outlet_influence
\* the value of cell (k, j) after one step: the largest of the four
\* neighbours (0.0 beyond the edge) times decay, if it exceeds the value the
\* cell has (the allowance of 1e-9 is below the resolution)
SpreadCell_Overwrite(influence, k, j, decay) ==
  LET at(k2, j2) == IF k2 \in K /\ j2 \in J THEN influence[k2][j2] ELSE 0
  IN  (SetMax({at(k - 1, j), at(k + 1, j), at(k, j - 1), at(k, j + 1)}) * decay) \div FP

SpreadCell(influence, k, j, decay) ==
  LET at(k2, j2) == IF k2 \in K /\ j2 \in J THEN influence[k2][j2] ELSE 0
      propagated == (SetMax({at(k - 1, j), at(k + 1, j), at(k, j - 1), at(k, j + 1)}) * decay) \div FP
  IN  IF propagated > influence[k][j] THEN propagated ELSE influence[k][j]

\* steps <= 0 returns source_map; otherwise influence is a copy of it
SpreadEnter ==
  /\ pc = "spread_request"
  /\ res' = [influence |-> req.source_map, done |-> 0]
  /\ pc' = IF req.steps <= 0 THEN "spread_returned" ELSE "spreading"
  /\ UNCHANGED <<req, env>>

\* one pass of "for _ in range(steps)": every cell is computed from the
\* influence of the pass before; the loop ends when nothing changed
SpreadStep ==
  /\ pc = "spreading"
  /\ \E updated \in {[k \in K |-> [j \in J |-> SpreadCell(res.influence, k, j, req.decay)]]} :
       /\ res' = [influence |-> updated, done |-> res.done + 1]
       /\ pc' = IF updated = res.influence \/ res.done + 1 = req.steps
                THEN "spread_returned" ELSE "spreading"
  /\ UNCHANGED <<req, env>>

\* seed maps with no weight, a small and a large summed weight in a cell
InitSpread ==
  /\ pc = "spread_request"
  /\ env = [sp |-> TRUE]
  /\ res = [influence |-> <<>>, done |-> 0]
  /\ req \in [source_map : [K -> [J -> {0, FP \div 10, FP}]],
              steps      : {0, 1, 3},
              decay      : {(84 * FP) \div 100, FP}]

NextSpread == SpreadEnter \/ SpreadStep

SpecSpread == InitSpread /\ [][NextSpread]_vars

MaxSeed == SetMax({req.source_map[c[1]][c[2]] : c \in Cells})

SolveInputs(powered_voltage, dc_offset, eps, wall_loss_map, transport, dirichlet) ==
  [powered_voltage |-> powered_voltage, dc_offset |-> dc_offset, eps |-> eps,
   wall_loss_map |-> wall_loss_map, transport |-> transport,
   dirichlet_mask |-> dirichlet.mask, dirichlet_values |-> dirichlet.values]

\* transport .. dirichlet_mask, dirichlet_values of the primary solve
PreparePrimary ==
  /\ pc = "compare_request"
  /\ res' = [first |-> <<SolveInputs(req.powered_voltage, req.dc_offset, build_epsilon_map(req),
                                     build_wall_loss_map(req), req.transport,
                                     build_dirichlet_mask_values(req, req.powered_voltage,
                                                                 req.dc_offset))>>,
             second |-> <<>>,
             calls |-> [derive_transport_coefficients |-> 1, build_epsilon_map |-> 1,
                        build_wall_loss_map |-> 1, derive_powered_boundary_voltage |-> 1,
                        derive_dc_bias_offset |-> 1, build_dirichlet_mask_values |-> 1]]
  /\ pc' = "primary"
  /\ UNCHANGED <<req, env>>

\* the DC offset is perturbed with the voltage
PreparePerturbed_ScaledOffset ==
  /\ pc = "primary"
  /\ run_compare(req)
  /\ LET first == res.first[1]
         perturbed_voltage == IF first.powered_voltage > 0
                              THEN (102 * first.powered_voltage) \div 100 ELSE 0
         perturbed_offset == (102 * first.dc_offset) \div 100
     IN  res' = [res EXCEPT
                   !.second = <<SolveInputs(perturbed_voltage, perturbed_offset, first.eps,
                                            first.wall_loss_map, first.transport,
                                            build_dirichlet_mask_values(req, perturbed_voltage,
                                                                        perturbed_offset))>>,
                   !.calls.build_dirichlet_mask_values = @ + 1]
  /\ pc' = "perturbed"
  /\ UNCHANGED <<req, env>>

\* perturbed_voltage = powered_voltage * 1.02 if powered_voltage > 0.0 else 0.0;
\* build_dirichlet_mask_values is called again, eps, wall_loss_map, dc_offset
\* and transport are the objects of the primary solve
PreparePerturbed ==
  /\ pc = "primary"
  /\ run_compare(req)
  /\ LET first == res.first[1]
         perturbed_voltage == IF first.powered_voltage > 0
                              THEN (102 * first.powered_voltage) \div 100 ELSE 0
     IN  res' = [res EXCEPT
                   !.second = <<SolveInputs(perturbed_voltage, first.dc_offset, first.eps,
                                            first.wall_loss_map, first.transport,
                                            build_dirichlet_mask_values(req, perturbed_voltage,
                                                                        first.dc_offset))>>,
                   !.calls.build_dirichlet_mask_values = @ + 1]
  /\ pc' = "perturbed"
  /\ UNCHANGED <<req, env>>

\* run_compare is False: no second solve
NoPerturbed ==
  /\ pc = "primary"
  /\ ~run_compare(req)
  /\ pc' = "no_compare"
  /\ UNCHANGED <<req, env, res>>

\* grids of plasma, wall, powered and ground cells, with and without tag
\* masks, DC-bias regions on the tags and a material override
InitPerturb ==
  /\ pc = "compare_request"
  /\ env = [sp |-> TRUE]
  /\ res = [first |-> <<>>, second |-> <<>>,
            calls |-> [derive_transport_coefficients |-> 0, build_epsilon_map |-> 0,
                       build_wall_loss_map |-> 0, derive_powered_boundary_voltage |-> 0,
                       derive_dc_bias_offset |-> 0, build_dirichlet_mask_values |-> 0]]
  /\ req \in [region_id           : RegionGrids(0 .. 4),
              tag_mask            : {NoTagMask, DisjointTags},
              rf_sources          : {<<>>},
              rf_power_W          : {4},
              dc_bias_regions     : {<<>>, << DCBiasRegion("a", 500), DCBiasRegion("b", -500) >>},
              powered_voltage     : {0, HighVoltage},
              dc_offset           : {0, FP \div 2},
              epsilon_r           : {4 * FP},
              wall_loss_e         : {FP \div 5},
              material_regions    : {<<>>, << [target_tag |-> "a", epsilon_r |-> 7 * FP,
                                              wall_loss_e |-> FP \div 2] >>},
              transport           : {"transport"},
              baseline_enabled    : BOOLEAN,
              efield              : BOOLEAN,
              ne                  : {FALSE},
              volume_loss_density : {FALSE},
              sheath              : {FALSE}]

NextPerturb == PreparePrimary \/ PreparePerturbed \/ NoPerturbed

SpecPerturb == InitPerturb /\ [][NextPerturb]_vars

\* the second solve differs from the primary one in the drive only
OnlyDriveChanged ==
  LET first == res.first[1]
      second == res.second[1]
  IN  /\ second.powered_voltage =
           IF first.powered_voltage > 0 THEN (102 * first.powered_voltage) \div 100 ELSE 0
      /\ second.dirichlet_mask = first.dirichlet_mask
      /\ \A c \in Cells :
           IF RegionType(req, c[1], c[2]) = "powered_electrode"
           THEN second.dirichlet_values[c[1]][c[2]] >= first.dirichlet_values[c[1]][c[2]]
           ELSE second.dirichlet_values[c[1]][c[2]] = first.dirichlet_values[c[1]][c[2]]
      /\ second.dc_offset = first.dc_offset
      /\ second.eps = first.eps
      /\ second.wall_loss_map = first.wall_loss_map
      /\ second.transport = first.transport

\* C23: the perturbed solve has powered_voltage 1.02 times the primary one (0
\* for 0) while the Dirichlet mask, the ground and wall values, the DC offset,
\* the permittivity and wall-loss maps and the transport coefficients are those
\* of the primary solve, and none of them is computed a second time.
C23_Claimed ==
  pc = "perturbed" =>
    /\ OnlyDriveChanged
    /\ \A f \in DOMAIN res.calls : res.calls[f] = 1

\* C23 (amended): as claimed for the values; the DC offset, the permittivity
\* and wall-loss maps and the transport coefficients are computed once, the
\* Dirichlet mask and values by a second call of build_dirichlet_mask_values.
C23_OnlyDriveChanges ==
  pc = "perturbed" =>
    /\ OnlyDriveChanged
    /\ \A f \in DOMAIN res.calls :
         res.calls[f] = IF f = "build_dirichlet_mask_values" THEN 2 ELSE 1

\* a second solve with a raised powered value and a non-zero ground value
C23_Witness ==
  /\ pc = "perturbed"
  /\ res.first[1].powered_voltage > 0 /\ res.first[1].dc_offset > 0
  /\ \E c \in Cells :
       /\ RegionType(req, c[1], c[2]) = "powered_electrode"
       /\ res.second[1].dirichlet_values[c[1]][c[2]] > res.first[1].dirichlet_values[c[1]][c[2]]
  /\ \E c \in Cells :
       /\ RegionType(req, c[1], c[2]) = "ground_electrode"
       /\ res.first[1].dirichlet_values[c[1]][c[2]] # 0
       /\ res.second[1].dirichlet_values[c[1]][c[2]] = res.first[1].dirichlet_values[c[1]][c[2]]

\* ================================================== the /simulate endpoint
\* pc[r] is the position of the coroutine of request r, env.semaphore the
\* value of SIM_SEMAPHORE, env.thread[r] the state of the worker thread that
\* asyncio.to_thread started for r, res[r] the acquisitions, releases and the
\* status code of r.  A step is the code between two awaits.
NRequests == 3

Requests == 1 .. NRequests

\* the worker threads that execute run_simulation_poisson_v1
Executing == {r \in Requests : env.thread[r] = "executing"}

\* the finally clause: SIM_SEMAPHORE.release() and the response
Finish(r, code) ==
  /\ env' = [env EXCEPT !.semaphore = @ + 1]
  /\ res' = [res EXCEPT ![r].released = @ + 1, ![r].status = <<code>>]
  /\ pc' = [pc EXCEPT ![r] = "done"]

\* await asyncio.wait_for(SIM_SEMAPHORE.acquire(), ...) returns
Acquire(r) ==
  /\ pc[r] = "queued"
  /\ env.semaphore > 0
  /\ env' = [env EXCEPT !.semaphore = @ - 1]
  /\ res' = [res EXCEPT ![r].acquired = @ + 1]
  /\ pc' = [pc EXCEPT ![r] = "acquired"]
  /\ UNCHANGED req

\* SIM_QUEUE_WAIT_SECONDS pass while the semaphore is taken: 429
QueueTimeout(r) ==
  /\ pc[r] = "queued"
  /\ env.semaphore = 0
  /\ res' = [res EXCEPT ![r].status = <<429>>]
  /\ pc' = [pc EXCEPT ![r] = "done"]
  /\ UNCHANGED <<req, env>>

\* not axisymmetric or not an r-z coordinate system: 400
Reject(r) ==
  /\ pc[r] = "acquired"
  /\ ~req[r].axisymmetric
  /\ Finish(r, 400)
  /\ UNCHANGED req

\* mode "stub": run_simulation_stub runs in the coroutine
RunStub(r) ==
  /\ pc[r] = "acquired"
  /\ req[r].axisymmetric
  /\ req[r].mode = "stub"
  /\ Finish(r, 200)
  /\ UNCHANGED req

\* mode "poisson_v1": asyncio.to_thread hands the run to a worker thread
Submit(r) ==
  /\ pc[r] = "acquired"
  /\ req[r].axisymmetric
  /\ req[r].mode = "poisson_v1"
  /\ env' = [env EXCEPT !.thread[r] = "executing"]
  /\ pc' = [pc EXCEPT ![r] = "awaiting"]
  /\ UNCHANGED <<req, res>>

\* run_simulation_poisson_v1 returns in its thread
ThreadReturn(r) ==
  /\ env.thread[r] = "executing"
  /\ env' = [env EXCEPT !.thread[r] = "returned"]
  /\ UNCHANGED <<pc, req, res>>

\* the awaited run has returned: the response is built, 200
Respond(r) ==
  /\ pc[r] = "awaiting"
  /\ env.thread[r] = "returned"
  /\ Finish(r, 200)
  /\ UNCHANGED req

\* SIM_TIMEOUT_SECONDS pass before the run returns: 504.  Cancelling the
\* awaited future does not stop the thread that executes the run.
SimTimeout(r) ==
  /\ pc[r] = "awaiting"
  /\ env.thread[r] = "executing"
  /\ Finish(r, 504)
  /\ UNCHANGED req

InitSim ==
  /\ pc = [r \in Requests |-> "queued"]
  /\ req \in [Requests -> [mode : {"stub", "poisson_v1"}, axisymmetric : BOOLEAN]]
  /\ \E n \in {1, 2} :
       env = [SIM_MAX_CONCURRENCY |-> n, semaphore |-> n,
              thread |-> [r \in Requests |-> "none"]]
  /\ res = [r \in Requests |-> [acquired |-> 0, released |-> 0, status |-> <<>>]]

NextSim ==
  \E r \in Requests :
    \/ Acquire(r)
    \/ QueueTimeout(r)
    \/ Reject(r)
    \/ RunStub(r)
    \/ Submit(r)
    \/ ThreadReturn(r)
    \/ Respond(r)
    \/ SimTimeout(r)

SpecSim == InitSim /\ [][NextSim]_vars

\* every request that acquired the semaphore releases it once, at its end
ReleasedOnce ==
  \A r \in Requests :
    /\ res[r].acquired <= 1
    /\ res[r].released = IF pc[r] = "done" THEN res[r].acquired ELSE 0

\* C29: in every interleaving of /simulate requests, with 429 and 504
\* answers, at most SIM_MAX_CONCURRENCY runs of run_simulation_poisson_v1
\* execute at the same time and every request that acquired the semaphore
\* releases it exactly once.
C29_Claimed ==
  /\ Cardinality(Executing) <= env.SIM_MAX_CONCURRENCY
  /\ ReleasedOnce

====
